---- MODULE Spec2Model ----
(***************************************************************************)
(* Verification model of the RCPChatbot core: the query descriptor         *)
(* (QuerySpec), the text signal extractors, the follow-up context merge    *)
(* (context.py), the dataset operations (query_engine.py, summarizer.py)   *)
(* and the turn handler process_question (chat_service.py).                *)
(*                                                                         *)
(* A question text is represented by the signals the regular expressions   *)
(* of context.py / query_engine.py / date_io.py read off it (the patient   *)
(* number, the game and session tokens in text order, the date literals,   *)
(* the metric words, the cue phrases).  Python None is the string "None".  *)
(* The QuerySpec field is called patient in context.py / chat_service.py   *)
(* and patient_id in schema.py / query_engine.py; the model has one field  *)
(* patient for both.                                                       *)
(***************************************************************************)
EXTENDS Naturals, Integers, Sequences, FiniteSets, TLC

VARIABLES
    mNew,       \* merge harness: the parser's QuerySpec (new_spec)
    mQ,         \* merge harness: the question
    mPrior,     \* merge harness: last_spec (<<>> for None, else <<spec>>)
    mOut,       \* merge harness: <<the QuerySpec apply_followup_context returned>>
    mPc,        \* merge harness: "input" before the call, "merged" after
    context,    \* conversation: the context dict the caller round-trips
    turn,       \* conversation: what the last call of process_question did
    fArgs,      \* function harness: the arguments of the call
    fRet,       \* function harness: <<>> before the call, then the returned values
    fPc         \* function harness: "input" before the call, "idle" when unused

\* the value of turn before the first call
NoTurn == [ q |-> <<>>, llm |-> "", given |-> <<>>, resp |-> <<>> ]

vars == <<mNew, mQ, mPrior, mOut, mPc, context, turn, fArgs, fRet, fPc>>

mergeVars == <<mNew, mQ, mPrior, mOut, mPc>>

chatVars == <<context, turn>>

callVars == <<fArgs, fRet, fPc>>

-----------------------------------------------------------------------------
(* Sentinels *)

MISSING == "__MISSING__"

MULTI == "__MULTI__"

NONE == "None"

-----------------------------------------------------------------------------
(* config.py *)

\* sorted([...]) of config.py, in Python string order
ALLOWED_METRICS ==
    << "area", "average_sparc", "avg_actual_len", "avg_efficiency",
       "avg_excess_len", "avg_f_ee", "avg_ideal_len", "avg_max_dev",
       "avg_mean_dev", "avg_path_ratio", "diff_from_prev", "f_patient",
       "improvement" >>

AllowedMetricSet == { ALLOWED_METRICS[i] : i \in 1..Len(ALLOWED_METRICS) }

ALLOWED_GAMES == { "game0", "game1", "game2" }

FOLLOWUP_CUES ==
    { "what about", "how about", "and", "also", "their", "that one", "same",
      "instead" }

RESET_COMMANDS ==
    { "reset", "reset context", "clear", "clear context", "new question" }

-----------------------------------------------------------------------------
(* schema.py *)

QuerySpec(p, m, ds, de, g, s) ==
    [ patient |-> p, metric |-> m, date_start |-> ds, date_end |-> de,
      game |-> g, session |-> s ]

-----------------------------------------------------------------------------
(* Questions.  The fields are what the regular expressions read off the    *)
(* text: patient = the number extract_patient_from_text finds (or NONE);   *)
(* games = the "game N" tokens, in text order; sessions = the singular     *)
(* "session N" tokens, in text order, as session_N; plural = the text has  *)
(* a "sessions N" token; dates = the date literals, in text order; words = *)
(* the metric-looking words; cue = a FOLLOWUP_CUES phrase; cmp = a         *)
(* comparison word; range = the range phrasing; rel = a relative session   *)
(* phrase; command = the whole stripped, lower-cased text when it is one   *)
(* of the short commands; gender / defn = a gender word / a definition     *)
(* opening is present; since = an open-ended date word ("since", "after"). *)

BlankQ ==
    [ patient |-> NONE, games |-> <<>>, sessions |-> <<>>, plural |-> FALSE,
      dates |-> <<>>, words |-> {}, cue |-> NONE, cmp |-> NONE,
      range |-> "none", rel |-> NONE, command |-> NONE, gender |-> FALSE,
      defn |-> FALSE, since |-> FALSE ]

\* the words of a metric-looking word after _normalize_alias_text
\* (lower-case, runs of '_' and '-' become one space)
NormWords(w) ==
    CASE w = "range_of_motion" -> << "range", "of", "motion" >>
      [] w = "range of motion" -> << "range", "of", "motion" >>
      [] w = "avg_f_patient"   -> << "avg", "f", "patient" >>
      [] w = "f_patient"       -> << "f", "patient" >>
      [] w = "avg_efficiency"  -> << "avg", "efficiency" >>
      [] w = "average_sparc"   -> << "average", "sparc" >>
      [] w = "avg_path_ratio"  -> << "avg", "path", "ratio" >>
      [] w = "grip_strength"   -> << "grip", "strength" >>
      [] OTHER                 -> << w >>

\* _RAW_METRIC_ALIAS_MAP after key normalisation, in dict order:
\* <<phrase words, canonical metric>>
METRIC_ALIAS_MAP ==
    << << <<"sparc">>, "average_sparc" >>,
       << <<"smoothness">>, "average_sparc" >>,
       << <<"efficiency">>, "avg_efficiency" >>,
       << <<"efficient">>, "avg_efficiency" >>,
       << <<"force">>, "avg_f_patient" >>,
       << <<"strength">>, "avg_f_patient" >>,
       << <<"avg", "f", "patient">>, "avg_f_patient" >>,
       << <<"area">>, "area" >>,
       << <<"range", "of", "motion">>, "area" >>,
       << <<"rangeofmotion">>, "area" >>,
       << <<"rom">>, "area" >> >>

\* phrase occurs in ws as a run of whole words
PhraseIn(phrase, ws) ==
    \E i \in 1..Len(ws) :
        /\ i + Len(phrase) - 1 <= Len(ws)
        /\ \A k \in 1..Len(phrase) : ws[i + k - 1] = phrase[k]

looks_like_followup(q) ==
    \/ q.cue \in FOLLOWUP_CUES
    \/ q.range = "between_and"      \* "... and session N" contains "and"

extract_patient_from_text(q) == q.patient

question_mentions_patient(q) == extract_patient_from_text(q) # NONE

question_mentions_game(q) == q.games # <<>>

question_mentions_session(q) == q.sessions # <<>> \/ q.plural

question_mentions_dates(q) == q.dates # <<>>

\* "session" in q.lower()
TextHasSession(q) ==
    \/ q.sessions # <<>>
    \/ q.plural
    \/ q.rel # NONE
    \/ q.range # "none"
    \/ "session duration" \in q.words

is_duration_question(q) ==
    /\ TextHasSession(q)
    /\ q.words \cap { "how long", "duration", "session duration" } # {}

\* step 1 of extract_metric_from_text: re.search(\bm\b, q) for an allow-listed m
ExactMetricHit(q, m) == m \in q.words

\* step 2: the alias phrase occurs in the normalised text
AliasHit(q, a) == \E w \in q.words : PhraseIn(a[1], NormWords(w))

extract_metric_from_text(q) ==
    IF is_duration_question(q) THEN "timestampms"
    ELSE IF \E i \in 1..Len(ALLOWED_METRICS) : ExactMetricHit(q, ALLOWED_METRICS[i])
    THEN ALLOWED_METRICS[
            CHOOSE i \in 1..Len(ALLOWED_METRICS) :
                /\ ExactMetricHit(q, ALLOWED_METRICS[i])
                /\ \A j \in 1..(i - 1) : ~ExactMetricHit(q, ALLOWED_METRICS[j]) ]
    ELSE IF \E i \in 1..Len(METRIC_ALIAS_MAP) : AliasHit(q, METRIC_ALIAS_MAP[i])
    THEN METRIC_ALIAS_MAP[
            CHOOSE i \in 1..Len(METRIC_ALIAS_MAP) :
                /\ AliasHit(q, METRIC_ALIAS_MAP[i])
                /\ \A j \in 1..(i - 1) : ~AliasHit(q, METRIC_ALIAS_MAP[j]) ][2]
    ELSE NONE

\* the canonical metrics the text mentions; the list of the source holds each
\* once, the model keeps the set of its elements
extract_metrics_from_text(q) ==
    (IF is_duration_question(q) THEN { "timestampms" } ELSE {})
    \cup { m \in AllowedMetricSet : ExactMetricHit(q, m) }
    \cup { METRIC_ALIAS_MAP[i][2] :
             i \in { j \in 1..Len(METRIC_ALIAS_MAP) : AliasHit(q, METRIC_ALIAS_MAP[j]) } }

-----------------------------------------------------------------------------
(* context.py: apply_followup_context *)

MergeMetric(new_spec, q, last_spec) ==
    LET explicit_metric == extract_metric_from_text(q) IN
    IF explicit_metric # NONE THEN explicit_metric
    ELSE IF looks_like_followup(q) \/ new_spec.metric = MISSING
    THEN last_spec.metric
    ELSE new_spec.metric

MergePatient(new_spec, q, last_spec) ==
    IF \/ (looks_like_followup(q) /\ ~question_mentions_patient(q))
       \/ (new_spec.patient = MISSING /\ ~question_mentions_patient(q))
    THEN last_spec.patient
    ELSE new_spec.patient

MergeDatesInherit(new_spec, q) ==
    /\ new_spec.date_start = MISSING
    /\ new_spec.date_end = MISSING
    /\ ~question_mentions_dates(q)

\* faulty variant: the game is inherited although the text names one
MergeGame_IgnoresMention(new_spec, q, last_spec) ==
    IF looks_like_followup(q) \/ new_spec.game = NONE
    THEN last_spec.game
    ELSE new_spec.game

MergeGame(new_spec, q, last_spec) ==
    IF \/ (looks_like_followup(q) /\ ~question_mentions_game(q))
       \/ (new_spec.game = NONE /\ ~question_mentions_game(q))
    THEN last_spec.game
    ELSE new_spec.game

MergeSession(new_spec, q, last_spec) ==
    IF question_mentions_dates(q) /\ ~question_mentions_session(q)
    THEN NONE
    ELSE IF \/ (looks_like_followup(q) /\ ~question_mentions_session(q))
            \/ (new_spec.session = NONE /\ ~question_mentions_session(q))
    THEN last_spec.session
    ELSE new_spec.session

\* last_spec is <<>> for Python None and <<spec>> otherwise
apply_followup_context(new_spec, q, last_spec) ==
    IF last_spec = <<>> THEN new_spec
    ELSE LET last == last_spec[1] IN
         QuerySpec(
            MergePatient(new_spec, q, last),
            MergeMetric(new_spec, q, last),
            IF MergeDatesInherit(new_spec, q) THEN last.date_start
                                              ELSE new_spec.date_start,
            IF MergeDatesInherit(new_spec, q) THEN last.date_end
                                              ELSE new_spec.date_end,
            MergeGame(new_spec, q, last),
            MergeSession(new_spec, q, last))

-----------------------------------------------------------------------------
(* chat_service.py: the strict validation that follows the merge *)

MetricAllowed(spec) == spec.metric \in AllowedMetricSet \/ spec.metric = MISSING

GameAllowed(spec) == spec.game = NONE \/ spec.game \in ALLOWED_GAMES

-----------------------------------------------------------------------------
(* The dataset (the DataFrame load_data returns).  Dates are ISO strings,  *)
(* ordered by their position in DATES; a cell of a metric column is        *)
(* [k, v]: k = "num" for a finite number v (in hundredths), "inf" for an   *)
(* infinite value, "text" for non-numeric text such as '#NAME', "nan" for  *)
(* a missing value.                                                        *)

\* today_iso(), later than every date of the dataset
TODAY == "2026-01-01"

DATES == << "2022-02-24", "2022-03-10", "2022-03-23", "2022-03-25", TODAY >>

DateNum(d) == CHOOSE i \in 1..Len(DATES) : DATES[i] = d

\* session ids the model uses, with the integer int(m.group(1)) reads off them
SESSION_NUMBERS ==
    << << "session_1", 1 >>, << "session_2", 2 >>, << "session_3", 3 >>,
       << "session_4", 4 >>, << "session_9", 9 >>, << "session_10", 10 >> >>

\* a value of the session column that the pattern session[_\s]*(\d+) parses but
\* that are not written session_<n>: <<string, number, rank in string order>>
LOOSE_SESSION_NUMBERS ==
    << << "session 2", 2, -10000 >>, << "session__2", 2, 50000 >> >>

\* the strings of the form session_<n>
SessionIds == { SESSION_NUMBERS[i][1] : i \in 1..Len(SESSION_NUMBERS) }

\* every string with a session number
SessionStrings ==
    SessionIds \cup { LOOSE_SESSION_NUMBERS[i][1] : i \in 1..Len(LOOSE_SESSION_NUMBERS) }

\* session_number / _session_num: the parsed integer, or -1 where Python has None
session_number(s) ==
    IF s \in SessionIds
    THEN SESSION_NUMBERS[CHOOSE i \in 1..Len(SESSION_NUMBERS) :
                            SESSION_NUMBERS[i][1] = s][2]
    ELSE IF s \in SessionStrings
    THEN LOOSE_SESSION_NUMBERS[CHOOSE i \in 1..Len(LOOSE_SESSION_NUMBERS) :
                                  LOOSE_SESSION_NUMBERS[i][1] = s][2]
    ELSE -1

\* re.match(r"^session_\d+$", session)
SessionAllowed(spec) ==
    spec.session = NONE \/ spec.session = MULTI \/ spec.session \in SessionIds

\* rank of a session string in Python string order (n < 100): "session <n>"
\* before "session_<n>" before "session__<n>" before a string that starts with
\* a later letter
SessionStrKey(s) ==
    LET n == session_number(s) IN
    IF n = -1 THEN 100000
    ELSE IF s \in SessionIds
    THEN (IF n < 10 THEN n * 100 ELSE (n \div 10) * 100 + 1 + (n % 10))
    ELSE LOOSE_SESSION_NUMBERS[CHOOSE i \in 1..Len(LOOSE_SESSION_NUMBERS) :
                                  LOOSE_SESSION_NUMBERS[i][1] = s][3]

GameStrKey(g) == CHOOSE k \in 0..2 : g = << "game0", "game1", "game2" >>[k + 1]

\* str.strip() on the values of the patient_id column the model uses
Strip(p) == IF p = " 46 " THEN "46" ELSE p

Num(v) == [ k |-> "num", v |-> v ]

Bad(k) == [ k |-> k, v |-> 0 ]

Row(d, p, g, s, area, sparc, f) ==
    [ date |-> d, patient |-> p, game |-> g, session |-> s,
      cells |-> [ m \in { "area", "average_sparc", "f_patient" } |->
                    CASE m = "area" -> area
                      [] m = "average_sparc" -> sparc
                      [] m = "f_patient" -> f ] ]

DF ==
    << Row("2022-03-10", "46", "game0", "session_1", Num(10), Bad("inf"), Num(-1300)),
       Row("2022-03-23", "46", "game0", "session_2", Num(12), Bad("text"), Num(-500)),
       Row("2022-03-23", "46", "game0", "session_3", Num(9), Bad("nan"), Num(-800)),
       Row("2022-03-25", "46", "game0", "session_10", Num(11), Bad("nan"), Bad("nan")),
       Row("2022-03-10", "46", "game1", "session_1", Bad("nan"), Num(-3400), Num(-700)),
       Row("2022-03-10", "46", "game1", "session_2", Num(6), Num(-2800), Bad("inf")) >>

DFColumns == { "area", "average_sparc", "f_patient" }

-----------------------------------------------------------------------------
(* query_engine.py *)

\* faulty variant: only a missing value becomes None
_safe_metric_value_NanOnly(cell) == IF cell.k = "nan" THEN <<>> ELSE << cell.v >>

\* <<>> is Python None, <<v>> a float
_safe_metric_value(cell) == IF cell.k = "num" THEN << cell.v >> ELSE <<>>

\* the indices of seq in the order of key (a stable sort, as sort_values / sorted)
\* before[<<i, j>>] says whether index i sorts strictly before index j
RECURSIVE SortIdx(_, _, _)
SortIdx(todo, before, acc) ==
    IF todo = {} THEN acc
    ELSE LET i == CHOOSE x \in todo :
                    \A y \in todo \ { x } :
                        before[<< x, y >>] \/ (~before[<< y, x >>] /\ x < y)
         IN SortIdx(todo \ { i }, before, Append(acc, i))

OutRow(r, metric) ==
    [ date |-> r.date, patient |-> r.patient,
      metric_value |-> _safe_metric_value(r.cells[metric]),
      game |-> r.game, session |-> r.session ]

\* a fetch result: err = "" and the rows, or the single error row's text
Rows(rs) == [ err |-> "", names |-> <<>>, rows |-> rs ]

ErrorRow(e) == [ err |-> e, names |-> <<>>, rows |-> <<>> ]

\* "Missing required info: " followed by the names
MissingRow(names) == [ err |-> "Missing required info", names |-> names, rows |-> <<>> ]

\* faulty variant: the end date is excluded
RunQueryFilter_ExclusiveEnd(df, spec, i) ==
    /\ Strip(df[i].patient) = spec.patient
    /\ spec.game # NONE => df[i].game = spec.game
    /\ spec.session # NONE => df[i].session = spec.session
    /\ (spec.date_start # MISSING /\ spec.date_end # MISSING) =>
          /\ DateNum(df[i].date) >= DateNum(spec.date_start)
          /\ DateNum(df[i].date) < DateNum(spec.date_end)

RunQueryFilter(df, spec, i) ==
    /\ Strip(df[i].patient) = spec.patient
    /\ spec.game # NONE => df[i].game = spec.game
    /\ spec.session # NONE => df[i].session = spec.session
    /\ (spec.date_start # MISSING /\ spec.date_end # MISSING) =>
          /\ DateNum(df[i].date) >= DateNum(spec.date_start)
          /\ DateNum(df[i].date) <= DateNum(spec.date_end)

RunQueryBefore(df, i, j) ==
    \/ DateNum(df[i].date) < DateNum(df[j].date)
    \/ /\ df[i].date = df[j].date
       /\ \/ GameStrKey(df[i].game) < GameStrKey(df[j].game)
          \/ /\ df[i].game = df[j].game
             /\ SessionStrKey(df[i].session) < SessionStrKey(df[j].session)

run_query(df, spec) ==
    LET missing ==
            (IF spec.patient = MISSING THEN << "patient_id" >> ELSE <<>>)
            \o (IF spec.metric = MISSING THEN << "metric" >> ELSE <<>>)
            \o (IF spec.session = NONE /\ spec.date_start = MISSING
                THEN << "date_start" >> ELSE <<>>)
        keep == { i \in 1..Len(df) : RunQueryFilter(df, spec, i) }
        before == [ p \in keep \X keep |-> RunQueryBefore(df, p[1], p[2]) ]
        order == SortIdx(keep, before, <<>>)
    IN
    IF spec.session # NONE /\ spec.game = NONE
    THEN ErrorRow("For session-based queries, please specify a game")
    ELSE IF spec.session = NONE /\ spec.game = NONE
    THEN ErrorRow("Please specify a game for date-range queries")
    ELSE IF missing # <<>>
    THEN MissingRow(missing)
    ELSE IF spec.metric \notin DFColumns
    THEN ErrorRow("Metric column not found in CSV")
    ELSE IF keep = {}
    THEN ErrorRow("No matching rows found")
    ELSE Rows([ k \in 1..Len(order) |-> OutRow(df[order[k]], spec.metric) ])

IsError(res) == res.err # ""

RangeBefore(df, i, j) ==
    \/ SessionStrKey(df[i].session) < SessionStrKey(df[j].session)
    \/ /\ df[i].session = df[j].session
       /\ DateNum(df[i].date) < DateNum(df[j].date)

run_session_range(df, spec, session_start, session_end) ==
    LET start_num == session_number(session_start)
        end_num == session_number(session_end)
        lo == IF start_num <= end_num THEN start_num ELSE end_num
        hi == IF start_num <= end_num THEN end_num ELSE start_num
        keep == { i \in 1..Len(df) :
                    /\ Strip(df[i].patient) = spec.patient
                    /\ df[i].game = spec.game
                    /\ session_number(df[i].session) # -1
                    /\ lo <= session_number(df[i].session)
                    /\ session_number(df[i].session) <= hi }
        before == [ p \in keep \X keep |-> RangeBefore(df, p[1], p[2]) ]
        order == SortIdx(keep, before, <<>>)
    IN
    IF spec.patient = MISSING THEN MissingRow(<< "patient_id" >>)
    ELSE IF spec.metric = MISSING THEN MissingRow(<< "metric" >>)
    ELSE IF spec.game = NONE
    THEN ErrorRow("Please specify a game for session-range queries")
    ELSE IF start_num = -1 \/ end_num = -1
    THEN ErrorRow("Could not parse session range")
    ELSE IF keep = {}
    THEN ErrorRow("No matching rows found")
    \* row[spec.metric] of the first row raises: no row list is returned
    ELSE IF spec.metric \notin DFColumns
    THEN ErrorRow("KeyError")
    ELSE Rows([ k \in 1..Len(order) |-> OutRow(df[order[k]], spec.metric) ])

\* the valid metric values of rows, as a sequence
ValidValues(rows) ==
    LET idx == { i \in 1..Len(rows) : rows[i].metric_value # <<>> }
        before == [ p \in idx \X idx |-> p[1] < p[2] ]
        order == SortIdx(idx, before, <<>>)
    IN [ k \in 1..Len(order) |-> rows[order[k]].metric_value[1] ]

RECURSIVE SumSeq(_)
SumSeq(vs) == IF vs = <<>> THEN 0 ELSE vs[1] + SumSeq(Tail(vs))

\* a mean is the exact fraction [num, den] (den > 0); <<>> is None
mean_metric_value(rows) ==
    LET vals == ValidValues(rows) IN
    IF vals = <<>> THEN <<>>
    ELSE << [ num |-> SumSeq(vals), den |-> Len(vals) ] >>

FracLess(a, b) == a.num * b.den < b.num * a.den

FracEq(a, b) == a.num * b.den = b.num * a.den

FracSub(a, b) == [ num |-> a.num * b.den - b.num * a.den, den |-> a.den * b.den ]

Abs(x) == IF x < 0 THEN -x ELSE x

\* (change / abs(first_mean)) * 100 as an exact fraction, <<>> for None
RelativeChangePct(change, first_mean) ==
    IF first_mean.num = 0 THEN <<>>
    ELSE << [ num |-> change.num * first_mean.den * 100,
              den |-> change.den * Abs(first_mean.num) ] >>

Resolved(s) == [ error |-> "", session |-> s ]

ResolveError(e) == [ error |-> e, session |-> NONE ]

\* sessions_by_num[n]: of the session strings with number n the dict keeps the
\* one inserted last, the last in string order
SessionsByNum(numbered, n) ==
    CHOOSE s \in numbered :
        /\ session_number(s) = n
        /\ \A t \in numbered :
              session_number(t) = n => SessionStrKey(t) <= SessionStrKey(s)

\* faulty variant: the first of the smaller numbers instead of the last
PrevNum_First(nums, base_num) ==
    CHOOSE n \in nums : n < base_num /\ \A m \in nums : n <= m

\* prev_nums[-1]: the largest number below base_num
PrevNum(nums, base_num) ==
    CHOOSE n \in nums : n < base_num /\ \A m \in nums : m < base_num => m <= n

\* next_nums[0]: the smallest number above base_num
NextNum(nums, base_num) ==
    CHOOSE n \in nums : n > base_num /\ \A m \in nums : m > base_num => n <= m

\* faulty variant: the sessions are ordered as strings, not by their number
resolve_relative_session_ByString(df, base_spec, cue) ==
    LET base_key == SessionStrKey(base_spec.session)
        sessions == { df[i].session :
                        i \in { j \in 1..Len(df) :
                                  /\ Strip(df[j].patient) = base_spec.patient
                                  /\ df[j].game = base_spec.game } }
        numbered == { s \in sessions : session_number(s) # -1 }
        prev == { s \in numbered : SessionStrKey(s) < base_key }
        next == { s \in numbered : SessionStrKey(s) > base_key }
        Least(S) == CHOOSE s \in S : \A t \in S : SessionStrKey(s) <= SessionStrKey(t)
        Greatest(S) == CHOOSE s \in S : \A t \in S : SessionStrKey(s) >= SessionStrKey(t)
    IN
    IF base_spec.session = NONE
    THEN ResolveError("No base session in context to compare from.")
    ELSE IF base_spec.patient = MISSING
    THEN ResolveError("No patient in context to compare.")
    ELSE IF base_spec.game = NONE
    THEN ResolveError("No game in context to compare.")
    ELSE IF session_number(base_spec.session) = -1
    THEN ResolveError("Could not parse session number")
    ELSE IF numbered = {}
    THEN ResolveError("No comparable sessions found for that patient/game.")
    ELSE IF cue = "first" THEN Resolved(Least(numbered))
    ELSE IF cue = "latest" THEN Resolved(Greatest(numbered))
    ELSE IF cue = "previous"
    THEN IF prev = {}
         THEN ResolveError("No previous session found before the current session.")
         ELSE Resolved(Greatest(prev))
    ELSE IF cue = "next"
    THEN IF next = {}
         THEN ResolveError("No next session found after the current session.")
         ELSE Resolved(Least(next))
    ELSE ResolveError("Unrecognized relative session cue.")

resolve_relative_session(df, base_spec, cue) ==
    LET base_num == session_number(base_spec.session)
        subset == { i \in 1..Len(df) :
                      /\ Strip(df[i].patient) = base_spec.patient
                      /\ df[i].game = base_spec.game }
        sessions == { df[i].session : i \in subset }
        numbered == { s \in sessions : session_number(s) # -1 }
        nums == { session_number(s) : s \in numbered }
        prev_nums == { n \in nums : n < base_num }
        next_nums == { n \in nums : n > base_num }
        Least(S) == SessionsByNum(numbered, CHOOSE n \in S : \A m \in S : n <= m)
        Greatest(S) == SessionsByNum(numbered, CHOOSE n \in S : \A m \in S : n >= m)
    IN
    IF base_spec.session = NONE
    THEN ResolveError("No base session in context to compare from.")
    ELSE IF base_spec.patient = MISSING
    THEN ResolveError("No patient in context to compare.")
    ELSE IF base_spec.game = NONE
    THEN ResolveError("No game in context to compare.")
    ELSE IF base_num = -1
    THEN ResolveError("Could not parse session number")
    ELSE IF numbered = {}
    THEN ResolveError("No comparable sessions found for that patient/game.")
    ELSE IF cue = "first" THEN Resolved(Least(nums))
    ELSE IF cue = "latest" THEN Resolved(Greatest(nums))
    ELSE IF cue = "previous"
    THEN IF prev_nums = {}
         THEN ResolveError("No previous session found before the current session.")
         ELSE Resolved(SessionsByNum(numbered, PrevNum(nums, base_num)))
    ELSE IF cue = "next"
    THEN IF next_nums = {}
         THEN ResolveError("No next session found after the current session.")
         ELSE Resolved(SessionsByNum(numbered, NextNum(nums, base_num)))
    ELSE ResolveError("Unrecognized relative session cue.")

CompareError(e) == [ error |-> e ]

\* _min_date: the earliest date of the rows (every row of DF has a date)
MinDate(rows) ==
    CHOOSE d \in { DateNum(rows[i].date) : i \in 1..Len(rows) } :
        \A i \in 1..Len(rows) : d <= DateNum(rows[i].date)

\* faulty variant: the base session is always the earlier one
CompareMeans_BaseFirst(spec_a, spec_b, rows_a, rows_b, mean_a, mean_b) ==
    [ error |-> "",
      session_a |-> spec_a.session,
      session_b |-> spec_b.session,
      session_earlier |-> spec_a.session,
      session_later |-> spec_b.session,
      value_earlier |-> mean_a,
      value_later |-> mean_b,
      change_later_minus_earlier |-> FracSub(mean_b, mean_a),
      relative_change_pct_vs_earlier |->
          RelativeChangePct(FracSub(mean_b, mean_a), mean_a) ]

\* the comparison of two fetched sessions with numeric means mean_a, mean_b
CompareMeans(spec_a, spec_b, rows_a, rows_b, mean_a, mean_b) ==
    LET num_a == session_number(spec_a.session)
        num_b == session_number(spec_b.session)
        swap ==
            IF num_a # -1 /\ num_b # -1 /\ num_a # num_b THEN num_a > num_b
            ELSE MinDate(rows_a.rows) > MinDate(rows_b.rows)
    IN
    [ error |-> "",
      session_a |-> spec_a.session,
      session_b |-> spec_b.session,
      session_earlier |-> IF swap THEN spec_b.session ELSE spec_a.session,
      session_later |-> IF swap THEN spec_a.session ELSE spec_b.session,
      value_earlier |-> IF swap THEN mean_b ELSE mean_a,
      value_later |-> IF swap THEN mean_a ELSE mean_b,
      change_later_minus_earlier |->
          IF swap THEN FracSub(mean_a, mean_b) ELSE FracSub(mean_b, mean_a),
      relative_change_pct_vs_earlier |->
          IF swap THEN RelativeChangePct(FracSub(mean_a, mean_b), mean_b)
          ELSE RelativeChangePct(FracSub(mean_b, mean_a), mean_a) ]

\* compare_two_sessions once both fetches rows_a, rows_b are made
CompareFetched(spec_a, spec_b, rows_a, rows_b, mean_a, mean_b) ==
    IF IsError(rows_a) THEN CompareError("Could not fetch base session")
    ELSE IF IsError(rows_b) THEN CompareError("Could not fetch other session")
    ELSE IF mean_a = <<>> \/ mean_b = <<>>
    THEN CompareError("One of the sessions has no numeric metric values.")
    ELSE CompareMeans(spec_a, spec_b, rows_a, rows_b, mean_a[1], mean_b[1])

\* the means of two fetches
CompareRows(spec_a, spec_b, rows_a, rows_b) ==
    CompareFetched(spec_a, spec_b, rows_a, rows_b,
                   mean_metric_value(rows_a.rows), mean_metric_value(rows_b.rows))

\* faulty variant: the copy is the object itself
model_copy_Shared(heap, ref) == [ heap |-> heap, ref |-> ref ]

\* model_copy(deep=True): a new object with the field values of heap[ref];
\* heap is the sequence of the QuerySpec objects, ref an index into it
model_copy(heap, ref) == [ heap |-> Append(heap, heap[ref]), ref |-> Len(heap) + 1 ]

\* the QuerySpec objects once spec_a and spec_b are set up; object 1 is
\* base_spec
CompareSpecs(base_spec, other_session) ==
    LET a == model_copy(<< base_spec >>, 1)
        b == model_copy(a.heap, 1)
        dates_a == [ b.heap EXCEPT ![a.ref].date_start = MISSING,
                                   ![a.ref].date_end = MISSING ]
        dates_b == [ dates_a EXCEPT ![b.ref].date_start = MISSING,
                                    ![b.ref].date_end = MISSING ]
        session_a == [ dates_b EXCEPT ![a.ref].session = dates_b[1].session ]
    IN [ heap |-> [ session_a EXCEPT ![b.ref].session = other_session ],
         a |-> a.ref, b |-> b.ref ]

compare_two_sessions(df, base_spec, other_session) ==
    LET objs == CompareSpecs(base_spec, other_session)
        spec_a == objs.heap[objs.a]
        spec_b == objs.heap[objs.b]
    IN
    IF base_spec.session = NONE
    THEN CompareError("No base session in context to compare from.")
    ELSE IF base_spec.metric = MISSING
    THEN CompareError("No metric in context to compare.")
    ELSE IF base_spec.patient = MISSING
    THEN CompareError("No patient in context to compare.")
    ELSE CompareRows(spec_a, spec_b, run_query(df, spec_a), run_query(df, spec_b))

-----------------------------------------------------------------------------
(* summarizer.py *)

\* faulty variant: the session is not looked at
is_point_query_SingleDateOnly(spec, rows) ==
    Cardinality({ rows[i].date : i \in 1..Len(rows) }) = 1

is_point_query(spec, rows) ==
    \/ spec.session # NONE
    \/ Cardinality({ rows[i].date : i \in 1..Len(rows) }) = 1

\* "" or the error text; the value of a good point is the mean of the valid values
format_point_result(rows, metric_name) ==
    IF Len(rows) = 1
    THEN IF rows[1].metric_value = <<>>
         THEN [ error |-> "No valid numeric values", value |-> <<>> ]
         ELSE [ error |-> "", value |-> mean_metric_value(rows) ]
    ELSE IF Cardinality({ rows[i].game : i \in 1..Len(rows) }) > 1
    THEN [ error |-> "Multiple games matched this session", value |-> <<>> ]
    ELSE IF ValidValues(rows) = <<>>
    THEN [ error |-> "No valid numeric values", value |-> <<>> ]
    ELSE [ error |-> "", value |-> mean_metric_value(rows) ]

\* the metric values of the model are in hundredths
UNITS_PER_ONE == 100

\* 1 / 1e-6, the noise floor of classify_trend
INVERSE_NOISE_FLOOR == 1000000

\* faulty variant: lower is better
_metric_improvement_direction_LowerBetter(metric_name) == -1

\* +1: higher is better, for the listed metrics and by default
_metric_improvement_direction(metric_name) ==
    IF metric_name \in { "average_sparc", "avg_efficiency", "avg_f_patient", "area" }
    THEN 1 ELSE 1

\* faulty variant: every rise counts, however small
AboveEpsilon_AnyRise(d, baseline) == d.num > 0

\* d > epsilon, with epsilon = max(1e-6, 0.01 * abs(baseline)); d and baseline
\* are exact fractions of hundredths
AboveEpsilon(d, baseline) ==
    /\ d.num * (INVERSE_NOISE_FLOOR \div UNITS_PER_ONE) > d.den
    /\ 100 * d.num * baseline.den > Abs(baseline.num) * d.den

\* d * direction for a delta d
Scaled(d, direction) == [ num |-> d.num * direction, den |-> d.den ]

\* faulty variant: 'variable' whenever both directions occur, without the
\* 80% rule
classify_trend_NoSuperMajority(per_date_summary, metric_name) ==
    LET vals == [ i \in 1..Len(per_date_summary) |-> per_date_summary[i].mean ]
        direction == _metric_improvement_direction(metric_name)
        deltas == [ i \in 1..(Len(vals) - 1) |-> FracSub(vals[i + 1], vals[i]) ]
        improving == Cardinality({ i \in 1..Len(deltas) :
                        AboveEpsilon(Scaled(deltas[i], direction), vals[1]) })
        worsening == Cardinality({ i \in 1..Len(deltas) :
                        /\ ~AboveEpsilon(Scaled(deltas[i], direction), vals[1])
                        /\ AboveEpsilon(Scaled(deltas[i], -direction), vals[1]) })
    IN
    IF Len(per_date_summary) < 2 THEN NONE
    ELSE IF improving + worsening = 0 THEN "no clear trend"
    ELSE IF improving > 0 /\ worsening > 0 THEN "variable"
    ELSE IF improving > 0 THEN "improving"
    ELSE "worsening"

\* the trend label of the group means (NONE for fewer than two groups)
classify_trend(per_date_summary, metric_name) ==
    LET vals == [ i \in 1..Len(per_date_summary) |-> per_date_summary[i].mean ]
        direction == _metric_improvement_direction(metric_name)
        deltas == [ i \in 1..(Len(vals) - 1) |-> FracSub(vals[i + 1], vals[i]) ]
        improving == Cardinality({ i \in 1..Len(deltas) :
                        AboveEpsilon(Scaled(deltas[i], direction), vals[1]) })
        worsening == Cardinality({ i \in 1..Len(deltas) :
                        /\ ~AboveEpsilon(Scaled(deltas[i], direction), vals[1])
                        /\ AboveEpsilon(Scaled(deltas[i], -direction), vals[1]) })
        total_nonflat == improving + worsening
    IN
    IF Len(per_date_summary) < 2 THEN NONE
    ELSE IF total_nonflat = 0 THEN "no clear trend"
    ELSE IF improving * 10 >= 8 * total_nonflat THEN "improving"
    ELSE IF worsening * 10 >= 8 * total_nonflat THEN "worsening"
    ELSE IF improving > 0 /\ worsening > 0 THEN "variable"
    ELSE IF improving > 0 THEN "improving"
    ELSE "worsening"

\* the rows of one group, in row order
GroupRows(rows, field, k) ==
    LET idx == { i \in 1..Len(rows) : rows[i].metric_value # <<>> /\ rows[i][field] = k }
        before == [ p \in idx \X idx |-> p[1] < p[2] ]
        order == SortIdx(idx, before, <<>>)
    IN [ n \in 1..Len(order) |-> rows[order[n]] ]

\* the keys of todo in ascending rank (rank is a function of the key)
RECURSIVE SortKeys(_, _, _)
SortKeys(todo, rank, acc) ==
    IF todo = {} THEN acc
    ELSE LET k == CHOOSE x \in todo : \A y \in todo : rank[x] <= rank[y]
         IN SortKeys(todo \ { k }, rank, Append(acc, k))

\* the index of the first row with a valid value and the key k: the position
\* of k in the dict the groups are collected in
FirstIndex(rows, field, k) ==
    CHOOSE i \in 1..Len(rows) :
        /\ rows[i].metric_value # <<>> /\ rows[i][field] = k
        /\ \A j \in 1..(i - 1) : ~(rows[j].metric_value # <<>> /\ rows[j][field] = k)

\* one summary per distinct value of field among the rows with a valid value;
\* sorted() is stable, so keys of equal rank stay in dict order
GroupSummaries(rows, field, rank) ==
    LET keys == { rows[i][field] :
                    i \in { j \in 1..Len(rows) : rows[j].metric_value # <<>> } }
        sorted == SortKeys(keys,
                           [ k \in keys |-> rank[k] * (Len(rows) + 1)
                                             + FirstIndex(rows, field, k) ],
                           <<>>)
    IN [ n \in 1..Len(sorted) |->
            [ key |-> sorted[n],
              n |-> Len(GroupRows(rows, field, sorted[n])),
              mean |-> mean_metric_value(GroupRows(rows, field, sorted[n]))[1] ] ]

\* faulty variant: the change is taken from the second group, not the first
Summary_FromSecond(groups, requested_start, metric_name) ==
    LET base == groups[IF Len(groups) >= 2 THEN 2 ELSE 1] IN
    [ error |-> "",
      groups |-> groups,
      first_key |-> groups[1].key,
      last_key |-> groups[Len(groups)].key,
      change |-> FracSub(groups[Len(groups)].mean, base.mean),
      relative_change_pct |->
          RelativeChangePct(FracSub(groups[Len(groups)].mean, base.mean), base.mean),
      baseline_note |-> IF requested_start # groups[1].key
                        THEN << groups[1].key >> ELSE <<>>,
      trend_label |-> classify_trend(groups, metric_name) ]

\* faulty variant: never a baseline_note
Summary_NoBaselineNote(groups, requested_start, metric_name) ==
    [ error |-> "",
      groups |-> groups,
      first_key |-> groups[1].key,
      last_key |-> groups[Len(groups)].key,
      change |-> FracSub(groups[Len(groups)].mean, groups[1].mean),
      relative_change_pct |->
          RelativeChangePct(FracSub(groups[Len(groups)].mean, groups[1].mean),
                            groups[1].mean),
      baseline_note |-> <<>>,
      trend_label |-> classify_trend(groups, metric_name) ]

\* requested_start is NONE where summarize_timeseries is called without one:
\* then there is no baseline_note
Summary(groups, requested_start, metric_name) ==
    [ error |-> "",
      groups |-> groups,
      first_key |-> groups[1].key,
      last_key |-> groups[Len(groups)].key,
      change |-> FracSub(groups[Len(groups)].mean, groups[1].mean),
      relative_change_pct |->
          RelativeChangePct(FracSub(groups[Len(groups)].mean, groups[1].mean),
                            groups[1].mean),
      baseline_note |-> IF requested_start # NONE /\ requested_start # groups[1].key
                        THEN << groups[1].key >> ELSE <<>>,
      trend_label |-> classify_trend(groups, metric_name) ]

SummaryError(e) == [ error |-> e ]

summarize_timeseries(res, metric_name, requested_start) ==
    LET rank == [ d \in { DATES[i] : i \in 1..Len(DATES) } |-> DateNum(d) ]
        groups == GroupSummaries(res.rows, "date", rank)
    IN
    IF IsError(res) THEN SummaryError(res.err)
    ELSE IF groups = <<>> THEN SummaryError("No valid numeric values")
    ELSE Summary(groups, requested_start, metric_name)

summarize_session_range(res, metric_name, session_start, session_end) ==
    LET rank == [ s \in SessionStrings |-> session_number(s) ]
        groups == GroupSummaries(res.rows, "session", rank)
    IN
    IF IsError(res) THEN SummaryError(res.err)
    ELSE IF groups = <<>> THEN SummaryError("No valid numeric values")
    ELSE Summary(groups, session_start, metric_name)

-----------------------------------------------------------------------------
(* date_io.py *)

\* dateparser.parse(s, dayfirst=True) on the literals the questions use;
\* an ISO date is returned as it is
parse_date_to_iso(d) ==
    CASE d = "24/2/22" -> "2022-02-24"
      [] d = "10/3/22" -> "2022-03-10"
      [] d = "23/3/22" -> "2022-03-23"
      [] d = "25/3/22" -> "2022-03-25"
      [] OTHER -> d

extract_dates_from_text(q) == q.dates

\* "from" also occurs in the range phrasing "from session N to session M"
HasOpenEndedCue(q) == q.since \/ q.range = "from_to"

apply_open_ended_date_logic(spec, q) ==
    LET dates == extract_dates_from_text(q) IN
    IF Len(dates) = 1 /\ HasOpenEndedCue(q)
    THEN [ spec EXCEPT !.date_start = parse_date_to_iso(dates[1]),
                       !.date_end = TODAY ]
    ELSE IF Len(dates) >= 2
    THEN [ spec EXCEPT !.date_start = parse_date_to_iso(dates[1]),
                       !.date_end = parse_date_to_iso(dates[2]) ]
    ELSE spec

-----------------------------------------------------------------------------
(* query_engine.py: text helpers *)

extract_sessions_from_text(q) == q.sessions

detect_relative_session_cue(q) ==
    CASE q.rel \in { "first session", "earliest session" } -> "first"
      [] q.rel \in { "latest session", "last session", "most recent session" } -> "latest"
      [] q.rel \in { "previous session", "prior session", "session before" } -> "previous"
      [] q.rel \in { "next session", "following session", "session after" } -> "next"
      [] OTHER -> NONE

-----------------------------------------------------------------------------
(* llm_client.py *)

\* words of the vocabulary that match [a-zA-Z]+_[a-zA-Z0-9_]+
SnakeCaseWords ==
    { "range_of_motion", "avg_f_patient", "f_patient", "avg_efficiency",
      "average_sparc", "avg_path_ratio", "grip_strength" }

_find_disallowed_metric_token(q) ==
    \E w \in q.words : w \in SnakeCaseWords /\ w \notin AllowedMetricSet

\* METRIC_ALIAS_MAP.get(_normalize_alias_text(metric)), NONE when absent
AliasLookup(metric) ==
    IF \E i \in 1..Len(METRIC_ALIAS_MAP) : METRIC_ALIAS_MAP[i][1] = NormWords(metric)
    THEN METRIC_ALIAS_MAP[CHOOSE i \in 1..Len(METRIC_ALIAS_MAP) :
                            METRIC_ALIAS_MAP[i][1] = NormWords(metric)][2]
    ELSE NONE

normalize_metric_alias(metric, q) ==
    IF metric \in AllowedMetricSet \/ metric = MISSING THEN metric
    ELSE IF extract_metric_from_text(q) # NONE THEN extract_metric_from_text(q)
    ELSE IF AliasLookup(metric) # NONE THEN AliasLookup(metric)
    ELSE metric

\* The remote model is outside the repository.  It either fails (no answer,
\* or not a JSON object) or returns the object its system prompt asks for:
\* the fields the question states, a metric phrase ("path ratio") mapped to
\* its allow-listed name, __MULTI__ for several games or sessions.
LLMReading(q) ==
    QuerySpec(
        IF q.patient # NONE THEN q.patient ELSE MISSING,
        IF extract_metric_from_text(q) # NONE THEN extract_metric_from_text(q)
        ELSE IF "path ratio" \in q.words THEN "avg_path_ratio"
        ELSE MISSING,
        IF Len(q.dates) >= 1 THEN q.dates[1] ELSE MISSING,
        IF Len(q.dates) >= 2 THEN q.dates[2] ELSE MISSING,
        IF Len(q.games) >= 2 THEN MULTI
        ELSE IF Len(q.games) = 1 THEN q.games[1] ELSE NONE,
        IF q.rel # NONE THEN NONE
        ELSE IF Len(q.sessions) >= 2 \/ (q.plural /\ q.sessions = <<>>) THEN MULTI
        ELSE IF Len(q.sessions) = 1 THEN q.sessions[1] ELSE NONE)

Parsed(spec) == [ raised |-> "", spec |-> << spec >> ]

Raised(e) == [ raised |-> e, spec |-> <<>> ]

\* the checks llm_question_to_query makes on the normalised QuerySpec
ValidateParsed(q, spec) ==
    LET has_dates == Len(extract_dates_from_text(q)) > 0 IN
    IF spec.game = MULTI THEN Raised("Multiple games mentioned.")
    ELSE IF ~MetricAllowed(spec) THEN Raised("Metric not allowed.")
    ELSE IF ~GameAllowed(spec) THEN Raised("Game not allowed.")
    ELSE IF ~SessionAllowed(spec) THEN Raised("Session not allowed.")
    ELSE IF spec.date_start # MISSING /\ spec.date_end # MISSING
            /\ DateNum(spec.date_start) > DateNum(spec.date_end)
    THEN Raised("Start date is after end date.")
    ELSE IF spec.session # NONE /\ spec.session # MULTI /\ ~has_dates
            /\ spec.game = NONE
    THEN Raised("Please specify the game for a session query")
    ELSE IF spec.session = NONE /\ has_dates /\ spec.game = NONE
    THEN Raised("For date-range queries, please specify the game")
    ELSE Parsed(spec)

\* the answered object obj with the overrides and normalisations applied
NormalizeParsed(q, obj) ==
    LET patient == IF extract_patient_from_text(q) # NONE
                   THEN extract_patient_from_text(q) ELSE obj.patient
        metric0 == IF obj.metric = MISSING /\ is_duration_question(q)
                   THEN "timestampms" ELSE obj.metric
        session == IF detect_relative_session_cue(q) # NONE THEN NONE ELSE obj.session
        metric == normalize_metric_alias(metric0, q)
    IN [ apply_open_ended_date_logic(
            QuerySpec(patient, metric, obj.date_start, obj.date_end,
                      obj.game, session), q)
         EXCEPT !.date_start = IF @ = MISSING THEN @ ELSE parse_date_to_iso(@),
                !.date_end = IF @ = MISSING THEN @ ELSE parse_date_to_iso(@) ]

\* llm is "fail" or "answer"
llm_question_to_query(q, llm) ==
    IF _find_disallowed_metric_token(q) THEN Raised("Metric not allowed.")
    ELSE IF llm = "fail" THEN Raised("request failed")
    ELSE ValidateParsed(q, NormalizeParsed(q, LLMReading(q)))

deterministic_question_to_query(q) ==
    LET patient == IF extract_patient_from_text(q) # NONE
                   THEN extract_patient_from_text(q) ELSE MISSING
        metric0 == IF extract_metric_from_text(q) # NONE
                   THEN extract_metric_from_text(q) ELSE MISSING
        game == IF Len(q.games) >= 2 THEN MULTI
                ELSE IF Len(q.games) = 1 THEN q.games[1] ELSE NONE
        sessions == extract_sessions_from_text(q)
        session == IF detect_relative_session_cue(q) # NONE THEN NONE
                   ELSE IF Len(sessions) >= 2 THEN MULTI
                   ELSE IF Len(sessions) = 1 THEN sessions[1] ELSE NONE
        metric == normalize_metric_alias(metric0, q)
    IN Parsed(apply_open_ended_date_logic(
                QuerySpec(patient, metric, MISSING, MISSING, game, session), q))

-----------------------------------------------------------------------------
(* metrics.py *)

METRIC_EXPLANATIONS == { "average_sparc", "area", "avg_efficiency", "f_patient" }

-----------------------------------------------------------------------------
(* chat_service.py.  The context dict is <<>> for Python None and          *)
(* <<[last_spec, last_session_range]>> otherwise; inside it <<>> is None,  *)
(* <<spec>> a dumped QuerySpec and <<s, e>> a session range.               *)

\* faulty variant: only the "from session .. to session" phrasing is a range
_is_session_range_question_FromOnly(q) == q.range = "from_to"

\* "from session" .. "to session", or "between session" .. "and session"
_is_session_range_question(q) == q.range \in { "from_to", "between_and" }

_context_from_state(last_spec, last_session_range) ==
    << [ last_spec |-> last_spec,
         last_session_range |-> IF last_session_range # <<>>
                                THEN last_session_range ELSE <<>> ] >>

_state_from_context(ctx) ==
    IF ctx = <<>> THEN [ last_spec |-> <<>>, last_session_range |-> <<>> ]
    ELSE [ last_spec |-> ctx[1].last_spec,
           last_session_range |-> IF Len(ctx[1].last_session_range) = 2
                                  THEN ctx[1].last_session_range ELSE <<>> ]

\* "compare" in ql or "differ" in ql or "difference" in ql
HasCompareWord(q) == q.cmp \in { "compare", "differ", "difference" }

\* the gender column of the dataset, per patient
GENDERS == [ p \in { "46" } |-> { "female" } ]

\* What one call returns: the response type, the returned context, and for
\* the properties the branch that produced it (mode), the QuerySpec the parser
\* gave (parsed), the finalized QuerySpec (spec), the session range used
\* (range) and whether the payload of a non-error response holds an error.
Response(type, mode, ctx, parsed, spec, range, payload_error) ==
    [ type |-> type, mode |-> mode, context |-> ctx, parsed |-> parsed,
      spec |-> spec, range |-> range, payload_error |-> payload_error ]

\* faulty variant: a reset that returns the state it was given
ResetTurn_KeepsState(st) ==
    Response("reset", "reset",
             _context_from_state(st.last_spec, st.last_session_range),
             <<>>, <<>>, <<>>, FALSE)

\* a reset command: the cleared context
ResetTurn(st) ==
    Response("reset", "reset", _context_from_state(<<>>, <<>>),
             <<>>, <<>>, <<>>, FALSE)

GenderTurn(q, st) ==
    LET patient == IF extract_patient_from_text(q) = NONE /\ st.last_spec # <<>>
                   THEN st.last_spec[1].patient
                   ELSE extract_patient_from_text(q)
        keep == _context_from_state(st.last_spec, st.last_session_range)
    IN
    IF patient = NONE \/ patient = MISSING \/ patient \notin DOMAIN GENDERS
       \/ Cardinality(GENDERS[patient]) # 1
    THEN Response("error", "gender", keep, <<>>, <<>>, <<>>, FALSE)
    ELSE Response("gender", "gender", keep, <<>>, <<>>, <<>>, FALSE)

DefinitionTurn(q, st) ==
    LET metric == extract_metric_from_text(q)
        keep == _context_from_state(st.last_spec, st.last_session_range)
    IN
    IF metric = NONE \/ metric \notin METRIC_EXPLANATIONS
    THEN Response("error", "definition", keep, <<>>, <<>>, <<>>, FALSE)
    ELSE Response("definition", "definition", keep, <<>>, <<>>, <<>>, FALSE)

IsFollowupCompare(q, st) ==
    /\ HasCompareWord(q)
    /\ st.last_spec # <<>>
    /\ ~question_mentions_patient(q)
    /\ ~question_mentions_game(q)
    /\ extract_metric_from_text(q) = NONE

\* faulty variant: the compared session becomes the session of last QD and the
\* range is dropped
FollowupCompareTurn_StoresBase(q, df, st) ==
    LET sessions == extract_sessions_from_text(q) IN
    Response("compare", "followup_compare",
             _context_from_state(
                 << [ st.last_spec[1] EXCEPT
                        !.session = IF sessions # <<>> THEN sessions[1] ELSE @ ] >>,
                 <<>>),
             <<>>, st.last_spec, <<>>, FALSE)

FollowupCompareTurn(q, df, st) ==
    LET last == st.last_spec[1]
        keep == _context_from_state(st.last_spec, st.last_session_range)
        sessions == extract_sessions_from_text(q)
        cue == detect_relative_session_cue(q)
        resolved == resolve_relative_session(df, last, cue)
        base == IF Len(sessions) >= 2 THEN [ last EXCEPT !.session = sessions[1] ]
                ELSE last
        other == IF Len(sessions) >= 2 THEN sessions[2]
                 ELSE IF Len(sessions) = 1 THEN sessions[1]
                 ELSE resolved.session
    IN
    IF sessions = <<>> /\ cue = NONE
    THEN Response("error", "followup_compare", keep, <<>>, <<>>, <<>>, FALSE)
    ELSE IF sessions = <<>> /\ resolved.error # ""
    THEN Response("error", "followup_compare", keep, <<>>, <<>>, <<>>, FALSE)
    ELSE Response("compare", "followup_compare", keep, <<>>, st.last_spec, <<>>,
                  compare_two_sessions(df, base, other).error # "")

\* the two session-range modes: range is the pair of bounds, keep the context
\* the turn was given, stored the context a successful turn returns
SessionRangeTurn(mode, keep, stored, parsed, spec, range, range_rows) ==
    IF spec.metric = MISSING \/ spec.patient = MISSING \/ spec.game = NONE
    THEN Response("error", mode, keep, << parsed >>, << spec >>, range, FALSE)
    ELSE IF IsError(range_rows)
    THEN Response("error", mode, keep, << parsed >>, << spec >>, range, FALSE)
    ELSE Response("session_range", mode, stored, << parsed >>, << spec >>, range,
                  summarize_session_range(range_rows, spec.metric,
                                          range[1], range[2]).error # "")

\* the single-prompt comparison mode; keep2 is the context after the clearing
\* of last_session_range
CompareSingleTurn(q, df, keep2, parsed, spec) ==
    LET sessions_in_q == extract_sessions_from_text(q)
        cue == detect_relative_session_cue(q)
        base == [ spec EXCEPT !.session = sessions_in_q[1] ]
        resolved == resolve_relative_session(df, base, cue)
        other == IF Len(sessions_in_q) >= 2 THEN sessions_in_q[2]
                 ELSE resolved.session
    IN
    IF spec.metric = MISSING \/ spec.patient = MISSING \/ spec.game = NONE
    THEN Response("error", "compare_single", keep2, << parsed >>, << spec >>,
                  <<>>, FALSE)
    ELSE IF Len(sessions_in_q) < 2 /\ ~(Len(sessions_in_q) = 1 /\ cue # NONE)
    THEN Response("error", "compare_single", keep2, << parsed >>, << spec >>,
                  <<>>, FALSE)
    ELSE IF Len(sessions_in_q) < 2 /\ resolved.error # ""
    THEN Response("error", "compare_single", keep2, << parsed >>, << spec >>,
                  <<>>, FALSE)
    ELSE Response("compare", "compare_single",
                  _context_from_state(<< spec >>, <<>>),
                  << parsed >>, << spec >>, <<>>,
                  compare_two_sessions(df, base, other).error # "")

\* faulty variant: the parsed QuerySpec is stored instead of the finalized one
BaseQueryTurn_StoresParsed(st, range2, parsed, spec, results) ==
    IF IsError(results)
    THEN Response("error", "base", _context_from_state(st.last_spec, range2),
                  << parsed >>, << spec >>, <<>>, FALSE)
    ELSE Response(IF is_point_query(spec, results.rows) THEN "point" ELSE "timeseries",
                  "base", _context_from_state(<< parsed >>, range2),
                  << parsed >>, << spec >>, <<>>, FALSE)

\* the base query with its point and timeseries modes; range2 is
\* last_session_range after the clearing
BaseQueryTurn(st, range2, parsed, spec, results) ==
    IF IsError(results)
    THEN Response("error", "base", _context_from_state(st.last_spec, range2),
                  << parsed >>, << spec >>, <<>>, FALSE)
    ELSE IF is_point_query(spec, results.rows)
    THEN Response("point", "base", _context_from_state(<< spec >>, range2),
                  << parsed >>, << spec >>, <<>>,
                  format_point_result(results.rows, spec.metric).error # "")
    ELSE LET summary == summarize_timeseries(results, spec.metric, spec.date_start)
         IN Response("timeseries", "base",
                     _context_from_state(IF summary.error = "" THEN << spec >>
                                         ELSE st.last_spec, range2),
                     << parsed >>, << spec >>, <<>>, summary.error # "")

\* the turn from the session-range check to the end of process_question
Dispatch(q, df, st, parsed, spec) ==
    LET keep == _context_from_state(st.last_spec, st.last_session_range)
        sessions_in_q == extract_sessions_from_text(q)
        explicit_session == question_mentions_session(q)
        explicit_dates == question_mentions_dates(q)
        single_range == << sessions_in_q[1], sessions_in_q[2] >>
        \* after "if explicit_session or explicit_dates: last_session_range = None"
        range2 == IF explicit_session \/ explicit_dates THEN <<>>
                  ELSE st.last_session_range
    IN
    IF Len(sessions_in_q) >= 2 /\ _is_session_range_question(q)
    THEN SessionRangeTurn("range_single", keep,
                          _context_from_state(<< spec >>, single_range),
                          parsed, spec, single_range,
                          run_session_range(df, spec, sessions_in_q[1],
                                            sessions_in_q[2]))
    ELSE IF /\ st.last_session_range # <<>>
            /\ sessions_in_q = <<>>
            /\ ~explicit_session
            /\ ~explicit_dates
    THEN SessionRangeTurn("range_followup", keep,
                          _context_from_state(<< spec >>, st.last_session_range),
                          parsed, spec, st.last_session_range,
                          run_session_range(df, spec, st.last_session_range[1],
                                            st.last_session_range[2]))
    ELSE IF HasCompareWord(q)
    THEN CompareSingleTurn(q, df, _context_from_state(st.last_spec, range2),
                           parsed, spec)
    ELSE BaseQueryTurn(st, range2, parsed, spec, run_query(df, spec))

\* faulty variant: the relative session is resolved against the merged QD
\* and the dates of the merge are kept
MergedTurn_KeepsDates(q, df, st, parsed, merged) ==
    LET keep == _context_from_state(st.last_spec, st.last_session_range)
        cue == detect_relative_session_cue(q)
        resolved == resolve_relative_session(df, merged, cue)
        spec == IF cue # NONE
                THEN [ merged EXCEPT !.session = resolved.session ]
                ELSE merged
    IN
    IF cue # NONE /\ st.last_spec = <<>>
    THEN Response("error", "validate", keep, << parsed >>, <<>>, <<>>, FALSE)
    ELSE IF cue # NONE /\ resolved.error # ""
    THEN Response("error", "validate", keep, << parsed >>, <<>>, <<>>, FALSE)
    ELSE IF ~MetricAllowed(spec) \/ ~GameAllowed(spec) \/ ~SessionAllowed(spec)
    THEN Response("error", "validate", keep, << parsed >>, << spec >>, <<>>, FALSE)
    ELSE Dispatch(q, df, st, parsed, spec)

\* the turn once the parser gave parsed and the merge gave merged: relative
\* session resolution and strict validation, then the dispatch
MergedTurn(q, df, st, parsed, merged) ==
    LET keep == _context_from_state(st.last_spec, st.last_session_range)
        cue == detect_relative_session_cue(q)
        resolved == resolve_relative_session(df, st.last_spec[1], cue)
        spec == IF cue # NONE
                THEN [ merged EXCEPT !.session = resolved.session,
                                     !.date_start = MISSING, !.date_end = MISSING ]
                ELSE merged
    IN
    IF cue # NONE /\ st.last_spec = <<>>
    THEN Response("error", "validate", keep, << parsed >>, <<>>, <<>>, FALSE)
    ELSE IF cue # NONE /\ resolved.error # ""
    THEN Response("error", "validate", keep, << parsed >>, <<>>, <<>>, FALSE)
    ELSE IF ~MetricAllowed(spec) \/ ~GameAllowed(spec) \/ ~SessionAllowed(spec)
    THEN Response("error", "validate", keep, << parsed >>, << spec >>, <<>>, FALSE)
    ELSE Dispatch(q, df, st, parsed, spec)

\* the turn from the parser's outcome on
ParsedTurn(q, df, st, parser_out) ==
    IF parser_out.raised # ""
    THEN Response("error", "parse",
                  _context_from_state(st.last_spec, st.last_session_range),
                  <<>>, <<>>, <<>>, FALSE)
    ELSE MergedTurn(q, df, st, parser_out.spec[1],
                    apply_followup_context(parser_out.spec[1], q, st.last_spec))

\* llm_question_to_query, and deterministic_question_to_query when it raised
ParseQuestion(q, llm_out) ==
    IF llm_out.raised = "" THEN llm_out ELSE deterministic_question_to_query(q)

\* llm is the remote model's outcome for this question: "fail" or "answer"
process_question(q, df, ctx, llm) ==
    LET st == _state_from_context(ctx) IN
    IF q.command \in RESET_COMMANDS
    THEN ResetTurn(st)
    ELSE IF q.gender THEN GenderTurn(q, st)
    ELSE IF /\ q.defn
            /\ ~question_mentions_patient(q)
            /\ ~question_mentions_game(q)
            /\ ~question_mentions_session(q)
            /\ ~question_mentions_dates(q)
    THEN DefinitionTurn(q, st)
    ELSE IF IsFollowupCompare(q, st) THEN FollowupCompareTurn(q, df, st)
    ELSE ParsedTurn(q, df, st, ParseQuestion(q, llm_question_to_query(q, llm)))

-----------------------------------------------------------------------------
(* The conversation: a caller sends questions to process_question and      *)
(* hands each returned context back with the next question (api.py), or    *)
(* starts over without a context.                                          *)

Q(fields) == [ f \in DOMAIN BlankQ |->
                 IF f \in DOMAIN fields THEN fields[f] ELSE BlankQ[f] ]

\* "... patient 46 <metric> [in game0] in session N / from D to D"
StandaloneQuestions ==
    { Q([ patient |-> "46", words |-> { "rom" }, games |-> << "game0" >>,
          sessions |-> << s >> ]) : s \in { "session_1", "session_9" } }
    \cup { Q([ patient |-> "46", words |-> { "rom" }, games |-> << "game0" >>,
               dates |-> << "10/3/22", "25/3/22" >> ]),
           Q([ patient |-> "46", words |-> { "rom" },
               sessions |-> << "session_1" >> ]),
           Q([ patient |-> "46", words |-> { "range_of_motion" },
               games |-> << "game0" >>, sessions |-> << "session_1" >> ]),
           Q([ patient |-> "46", words |-> { "sparc" }, games |-> << "game0" >>,
               sessions |-> << "session_2" >>,
               dates |-> << "10/3/22", "25/3/22" >> ]) }

\* "what about <metric>?", "what about in game 1?", "and session 2?", ...
FollowupQuestions ==
    { Q([ cue |-> "what about", words |-> w ]) :
        w \in { { "force" }, { "sparc" }, { "path ratio" } } }
    \cup { Q([ cue |-> "what about", games |-> << "game1" >> ]),
           Q([ cue |-> "and", sessions |-> << "session_2" >> ]),
           Q([ cue |-> "how about", dates |-> << "10/3/22", "23/3/22" >> ]),
           Q([ cue |-> "what about", rel |-> "next session" ]),
           Q([ rel |-> "previous session" ]) }

\* "how does that differ from session 2?", "compare this to the first session?", ...
CompareQuestions ==
    { Q([ cmp |-> "differ", sessions |-> << "session_2" >> ]),
      Q([ cmp |-> "differ", sessions |-> << "session_9" >> ]),
      Q([ cmp |-> "compare", rel |-> "first session" ]),
      Q([ cmp |-> "compare", rel |-> "next session" ]),
      Q([ cmp |-> "compare" ]),
      Q([ cmp |-> "compare", patient |-> "46", words |-> { "rom" },
          games |-> << "game0" >>, sessions |-> << "session_1", "session_3" >> ]),
      Q([ cmp |-> "compare", patient |-> "46", words |-> { "sparc" },
          games |-> << "game0" >>, sessions |-> << "session_1" >>,
          rel |-> "latest session" ]),
      \* "for patient 46 in game0, compare force and sparc between sessions 1
      \* and sessions 3": "sessions N" is no token of extract_sessions_from_text
      Q([ cmp |-> "compare", patient |-> "46", words |-> { "force", "sparc" },
          games |-> << "game0" >>, plural |-> TRUE, range |-> "between_and" ]),
      \* "... compare force and rom in session 1 with session 3"
      Q([ cmp |-> "compare", patient |-> "46", words |-> { "force", "rom" },
          games |-> << "game0" >>, sessions |-> << "session_1", "session_3" >> ]) }

\* "how did patient 46 rom change from session 1 to session 3 of game0", ...
RangeQuestions ==
    { Q([ range |-> "from_to", patient |-> "46", words |-> { "rom" },
          games |-> << "game0" >>, sessions |-> << "session_1", "session_3" >> ]),
      Q([ range |-> "from_to", sessions |-> << "session_1", "session_2" >> ]),
      Q([ range |-> "between_and", cmp |-> "differ",
          sessions |-> << "session_1", "session_3" >> ]) }

\* "reset", "what is their gender?", "what is sparc?"
OtherQuestions ==
    { Q([ command |-> "reset" ]),
      Q([ gender |-> TRUE, cue |-> "their" ]),
      Q([ defn |-> TRUE, words |-> { "sparc" } ]) }

ChatQuestions ==
    StandaloneQuestions \cup FollowupQuestions \cup CompareQuestions
    \cup RangeQuestions \cup OtherQuestions

LLMOutcomes == { "fail", "answer" }

MergeIdle ==
    /\ mNew = <<>> /\ mQ = <<>> /\ mPrior = <<>> /\ mOut = <<>> /\ mPc = "idle"

CallIdle ==
    /\ fArgs = <<>> /\ fRet = <<>> /\ fPc = "idle"

Init ==
    /\ context = <<>>
    /\ turn = NoTurn
    /\ MergeIdle
    /\ CallIdle

Ask ==
    \E q \in ChatQuestions, llm \in LLMOutcomes :
        /\ turn' = [ q |-> << q >>, llm |-> llm, given |-> context,
                     resp |-> << process_question(q, DF, context, llm) >> ]
        /\ context' = turn'.resp[1].context
        /\ UNCHANGED << mergeVars, callVars >>

NewConversation ==
    /\ turn # NoTurn
    /\ context' = <<>>
    /\ turn' = NoTurn
    /\ UNCHANGED << mergeVars, callVars >>

Next == Ask \/ NewConversation

Spec == Init /\ [][Next]_vars

-----------------------------------------------------------------------------
(* One request of api.py: the client sends a question with a context of    *)
(* its own making; last_spec is any mapping the QuerySpec constructor       *)
(* accepts, and QuerySpec declares plain strings without validators.       *)

RequestSpecs ==
    { QuerySpec("46", m, d[1], d[2], g, s) :
        m \in { "area", "timestampms" },
        d \in { << MISSING, MISSING >>, << "2022-03-10", "2022-03-25" >> },
        g \in { "game0", "game7" },
        s \in { NONE, "session_1", "warmup" } }

RequestContexts ==
    { <<>> }
    \cup { _context_from_state(<< spec >>, range) :
             spec \in RequestSpecs,
             range \in { <<>>, << "session_1", "session_3" >> } }

InitRequest ==
    /\ context \in RequestContexts
    /\ turn = NoTurn
    /\ MergeIdle
    /\ CallIdle

\* the handler of POST /chat, once
Request ==
    /\ turn = NoTurn
    /\ Ask

NextRequest == Request

SpecRequest == InitRequest /\ [][NextRequest]_vars

-----------------------------------------------------------------------------
(* Merge harness: apply_followup_context on bounded inputs.  The inputs    *)
(* are parser outputs for the question: llm_question_to_query and          *)
(* deterministic_question_to_query both overwrite patient with the number  *)
(* found in the text and the dates with the first two date literals.       *)

MergeQuestions ==
    { [ BlankQ EXCEPT !.patient = p, !.games = g, !.sessions = s,
                       !.dates = d, !.words = w, !.cue = c ] :
        p \in { NONE, "46" },
        g \in { <<>>, << "game1" >> },
        s \in { <<>>, << "session_2" >> },
        d \in { <<>>, << "10/3/22", "25/3/22" >> },
        w \in { {}, { "force" }, { "rom" }, { "path ratio" } },
        c \in { NONE, "what about", "and" } }

MergeNewSpecs ==
    { QuerySpec(p, m, d[1], d[2], g, s) :
        p \in { MISSING, "46" },
        m \in { MISSING, "avg_path_ratio" },
        d \in { << MISSING, MISSING >>, << "2022-03-10", "2022-03-25" >>,
                << "2022-03-10", MISSING >> },
        g \in { NONE, "game1" },
        s \in { NONE, "session_2" } }

MergePriorSpecs ==
    { QuerySpec("45", m, d[1], d[2], g, s) :
        m \in { "area", "f_patient" },
        d \in { << MISSING, MISSING >>, << "2022-02-24", "2022-03-10" >> },
        g \in { NONE, "game0" },
        s \in { NONE, "session_1" } }

ParserCouldReturn(new_spec, q) ==
    /\ q.patient # NONE => new_spec.patient = q.patient
    /\ Len(q.dates) >= 2 =>
          /\ new_spec.date_start = parse_date_to_iso(q.dates[1])
          /\ new_spec.date_end = parse_date_to_iso(q.dates[2])

ChatIdle ==
    /\ context = <<>>
    /\ turn = NoTurn

InitMerge ==
    /\ mQ \in MergeQuestions
    /\ mNew \in { n \in MergeNewSpecs : ParserCouldReturn(n, mQ) }
    /\ mPrior \in { <<>> } \cup { << l >> : l \in MergePriorSpecs }
    /\ mOut = <<>>
    /\ mPc = "input"
    /\ ChatIdle
    /\ CallIdle

Merge ==
    /\ mPc = "input"
    /\ mOut' = << apply_followup_context(mNew, mQ, mPrior) >>
    /\ mPc' = "merged"
    /\ UNCHANGED << mNew, mQ, mPrior, context, turn, callVars >>

NextMerge == Merge

SpecMerge == InitMerge /\ [][NextMerge]_vars

-----------------------------------------------------------------------------
(* Resolver harness: resolve_relative_session on bounded datasets and base  *)
(* QDs, then for a resolved "next" the call with cue "previous" from the    *)
(* resolved session.  The dates of the rows do not follow the session       *)
(* numbers.                                                                 *)

\* the rows of patient 46 / game0 a dataset may hold
ResolvePool ==
    << Row("2022-03-25", "46", "game0", "session_1", Num(10), Bad("nan"), Bad("nan")),
       Row("2022-03-10", "46", "game0", "session_2", Num(10), Bad("nan"), Bad("nan")),
       Row("2022-03-10", "46", "game0", "session 2", Num(10), Bad("nan"), Bad("nan")),
       Row("2022-03-10", "46", "game0", "session__2", Num(10), Bad("nan"), Bad("nan")),
       Row("2022-03-23", "46", "game0", "session_3", Num(10), Bad("nan"), Bad("nan")),
       Row("2022-02-24", "46", "game0", "session_9", Num(10), Bad("nan"), Bad("nan")),
       Row("2022-03-23", "46", "game0", "session_10", Num(10), Bad("nan"), Bad("nan")),
       Row("2022-03-10", "46", "game0", "warmup", Num(10), Bad("nan"), Bad("nan")) >>

\* rows of another game and of another patient, in every dataset
ResolveOtherRows ==
    << Row("2022-03-10", "46", "game1", "session_2", Num(10), Bad("nan"), Bad("nan")),
       Row("2022-03-10", "45", "game0", "session_3", Num(10), Bad("nan"), Bad("nan")) >>

\* the rows of pool with an index in I, from index k on, in the order of pool
RECURSIVE PickRows(_, _, _)
PickRows(pool, I, k) ==
    IF k > Len(pool) THEN <<>>
    ELSE (IF k \in I THEN << pool[k] >> ELSE <<>>) \o PickRows(pool, I, k + 1)

ResolveDatasets ==
    { ResolveOtherRows \o PickRows(ResolvePool, I, 1) :
        I \in SUBSET (1..Len(ResolvePool)) }

ResolveBaseSpecs ==
    { QuerySpec("46", "area", MISSING, MISSING, "game0", s) :
        s \in { NONE, MULTI, "session_1", "session_2", "session_3", "session_9",
                "session_10" } }
    \cup { QuerySpec(MISSING, "area", MISSING, MISSING, "game0", "session_2"),
           QuerySpec("46", "area", MISSING, MISSING, NONE, "session_2"),
           QuerySpec("46", "area", MISSING, MISSING, "game1", "session_2"),
           QuerySpec("46", "area", MISSING, MISSING, "game2", "session_2") }

ResolveCues == { "first", "latest", "previous", "next", "other" }

InitResolve ==
    /\ fArgs \in [ df : ResolveDatasets, base_spec : ResolveBaseSpecs,
                    cue : ResolveCues ]
    /\ fRet = <<>>
    /\ fPc = "input"
    /\ ChatIdle
    /\ MergeIdle

Resolve ==
    /\ fPc = "input"
    /\ fRet' = << resolve_relative_session(fArgs.df, fArgs.base_spec, fArgs.cue) >>
    /\ fPc' = "resolved"
    /\ UNCHANGED << fArgs, mergeVars, chatVars >>

\* the cue "previous" from the session a "next" resolved to
ResolveBack ==
    /\ fPc = "resolved"
    /\ fArgs.cue = "next"
    /\ fRet[1].error = ""
    /\ fRet' = Append(fRet,
                      resolve_relative_session(
                          fArgs.df,
                          [ fArgs.base_spec EXCEPT !.session = fRet[1].session ],
                          "previous"))
    /\ fPc' = "back"
    /\ UNCHANGED << fArgs, mergeVars, chatVars >>

NextResolve == Resolve \/ ResolveBack

SpecResolve == InitResolve /\ [][NextResolve]_vars

-----------------------------------------------------------------------------
(* Fetch harness: run_query and run_session_range on bounded datasets and  *)
(* QDs.  The rows of a dataset are in file order, not sorted.              *)

QueryPool ==
    << Row("2022-03-23", "46", "game0", "session_2", Num(12), Bad("text"), Num(-500)),
       Row("2022-03-10", " 46 ", "game0", "session_10", Bad("inf"), Num(-3400), Num(-700)),
       Row("2022-03-10", "46", "game0", "session_9", Num(9), Bad("nan"), Bad("inf")),
       Row("2022-03-10", "46", "game1", "session_2", Bad("nan"), Num(-2800), Num(-800)),
       Row("2022-03-25", "46", "game0", "session_2", Bad("text"), Bad("inf"), Num(-1300)),
       Row("2022-03-10", "45", "game0", "session_2", Num(5), Num(-3000), Bad("nan")) >>

QueryDatasets ==
    { PickRows(QueryPool, I, 1) : I \in SUBSET (1..Len(QueryPool)) }

QuerySpecs ==
    { QuerySpec(p, m, d[1], d[2], g, s) :
        p \in { MISSING, "46" },
        m \in { MISSING, "area", "average_sparc", "timestampms" },
        d \in { << MISSING, MISSING >>, << "2022-03-10", "2022-03-23" >>,
                << "2022-03-10", MISSING >> },
        g \in { NONE, "game0", "game1" },
        s \in { NONE, "session_2", "session_9" } }

QueryRanges ==
    { << "session_2", "session_10" >>, << "session_9", "session_2" >> }

InitQuery ==
    /\ fArgs \in [ df : QueryDatasets, spec : QuerySpecs, range : QueryRanges ]
    /\ fRet = <<>>
    /\ fPc = "input"
    /\ ChatIdle
    /\ MergeIdle

RunQuery ==
    /\ fPc = "input"
    /\ fRet' = << run_query(fArgs.df, fArgs.spec) >>
    /\ fPc' = "queried"
    /\ UNCHANGED << fArgs, mergeVars, chatVars >>

RunSessionRange ==
    /\ fPc = "input"
    /\ fRet' = << run_session_range(fArgs.df, fArgs.spec,
                                    fArgs.range[1], fArgs.range[2]) >>
    /\ fPc' = "ranged"
    /\ UNCHANGED << fArgs, mergeVars, chatVars >>

NextQuery == RunQuery \/ RunSessionRange

SpecQuery == InitQuery /\ [][NextQuery]_vars

-----------------------------------------------------------------------------
(* Summary harness: summarize_timeseries and summarize_session_range on    *)
(* bounded fetch results.  The rows are in no particular order.            *)

FetchedRow(d, s, v) ==
    [ date |-> d, patient |-> "46", metric_value |-> v, game |-> "game0",
      session |-> s ]

SummaryPool ==
    << FetchedRow("2022-03-23", "session_2", << 12 >>),
       FetchedRow("2022-03-10", "session_1", << 10 >>),
       FetchedRow("2022-03-25", "session_10", << 11 >>),
       FetchedRow("2022-03-23", "session_3", << 9 >>),
       FetchedRow("2022-03-10", "session_9", << 14 >>),
       FetchedRow("2022-03-25", "session_9", <<>>),
       FetchedRow("2022-02-24", "session_3", << 0 >>),
       FetchedRow("2022-03-10", "session 2", << 13 >>),
       FetchedRow("2022-03-23", "session_1", <<>>) >>

SummaryInputs ==
    { Rows(PickRows(SummaryPool, I, 1)) : I \in SUBSET (1..Len(SummaryPool)) }
    \cup { ErrorRow("No matching rows found") }

InitSummary ==
    /\ fArgs \in [ results : SummaryInputs,
                    requested_start : { NONE, "2022-02-24", "2022-03-10" },
                    session_start : { "session_1", "session_2" },
                    session_end : { "session_10" } ]
    /\ fRet = <<>>
    /\ fPc = "input"
    /\ ChatIdle
    /\ MergeIdle

SummarizeTimeseries ==
    /\ fPc = "input"
    /\ fRet' = << summarize_timeseries(fArgs.results, "area", fArgs.requested_start) >>
    /\ fPc' = "by_date"
    /\ UNCHANGED << fArgs, mergeVars, chatVars >>

SummarizeSessionRange ==
    /\ fPc = "input"
    /\ fRet' = << summarize_session_range(fArgs.results, "area",
                                          fArgs.session_start, fArgs.session_end) >>
    /\ fPc' = "by_session"
    /\ UNCHANGED << fArgs, mergeVars, chatVars >>

NextSummary == SummarizeTimeseries \/ SummarizeSessionRange

SpecSummary == InitSummary /\ [][NextSummary]_vars

-----------------------------------------------------------------------------
(* Trend harness: classify_trend on bounded sequences of group means, in   *)
(* hundredths.                                                             *)

TrendMeans == { -3400, -3390, 0, 100, 120, 150, 200, 10000, 10050, 10090 }

MaxGroups == 4

\* the means of the longer sequences
LongTrendMeans == { 85, 90, 100, 130, 140 }

MaxLongGroups == 6

TrendInputs ==
    UNION { [ 1..n -> TrendMeans ] : n \in 0..MaxGroups }
    \cup UNION { [ 1..n -> LongTrendMeans ] : n \in (MaxGroups + 1)..MaxLongGroups }

InitTrend ==
    /\ fArgs \in [ means : TrendInputs, metric_name : { "area", "f_patient" } ]
    /\ fRet = <<>>
    /\ fPc = "input"
    /\ ChatIdle
    /\ MergeIdle

ClassifyTrend ==
    /\ fPc = "input"
    /\ fRet' = << classify_trend(
                      [ i \in 1..Len(fArgs.means) |->
                          [ key |-> i, n |-> 1,
                            mean |-> [ num |-> fArgs.means[i], den |-> 1 ] ] ],
                      fArgs.metric_name) >>
    /\ fPc' = "classified"
    /\ UNCHANGED << fArgs, mergeVars, chatVars >>

NextTrend == ClassifyTrend

SpecTrend == InitTrend /\ [][NextTrend]_vars

-----------------------------------------------------------------------------
(* Comparison harness: compare_two_sessions on bounded datasets, base QDs  *)
(* and other sessions, then the same comparison with the two sessions      *)
(* exchanged.                                                              *)

\* the rows of patient 46 / game0 a dataset may hold; the cells are area,
\* average_sparc, f_patient
ComparePool ==
    << Row("2022-03-10", "46", "game0", "session_1", Num(10), Bad("nan"), Bad("nan")),
       Row("2022-03-23", "46", "game0", "session_1", Num(14), Bad("nan"), Bad("nan")),
       Row("2022-03-25", "46", "game0", "session_4", Num(20), Bad("nan"), Bad("nan")),
       Row("2022-02-24", "46", "game0", "session_4", Bad("nan"), Bad("nan"), Bad("nan")),
       Row("2022-03-10", "46", "game0", "session 2", Num(30), Bad("nan"), Bad("nan")),
       Row("2022-03-10", "46", "game0", "session_2", Num(16), Bad("nan"), Bad("nan")),
       Row("2022-03-23", "46", "game0", "session__2", Num(0), Bad("nan"), Bad("nan")),
       Row("2022-02-24", "46", "game0", "warmup", Num(18), Bad("nan"), Bad("nan")),
       Row("2022-03-10", "46", "game0", "session_10", Num(6), Bad("nan"), Bad("nan")) >>

CompareDatasets ==
    { ResolveOtherRows \o PickRows(ComparePool, I, 1) :
        I \in SUBSET (1..Len(ComparePool)) }

CompareSessions ==
    { "session_1", "session_2", "session_3", "session_4", "session_10",
      "session 2", "session__2", "warmup" }

CompareBaseSpecs ==
    { QuerySpec("46", "area", d[1], d[2], "game0", s) :
        d \in { << MISSING, MISSING >>, << "2022-03-23", "2022-03-25" >> },
        s \in CompareSessions \cup { NONE } }
    \cup { QuerySpec(MISSING, "area", MISSING, MISSING, "game0", "session_1"),
           QuerySpec("46", MISSING, MISSING, MISSING, "game0", "session_1"),
           QuerySpec("46", "area", MISSING, MISSING, NONE, "session_1") }

InitCompare ==
    /\ fArgs \in [ df : CompareDatasets, base_spec : CompareBaseSpecs,
                    other_session : CompareSessions ]
    /\ fRet = <<>>
    /\ fPc = "input"
    /\ ChatIdle
    /\ MergeIdle

\* the report and the caller's base_spec object after the call (the early
\* returns come before the copies are made)
CompareCall(df, base_spec, other_session) ==
    [ report |-> compare_two_sessions(df, base_spec, other_session),
      base_spec |->
          IF base_spec.session = NONE \/ base_spec.metric = MISSING
             \/ base_spec.patient = MISSING
          THEN base_spec
          ELSE CompareSpecs(base_spec, other_session).heap[1] ]

CompareTwoSessions ==
    /\ fPc = "input"
    /\ fRet' = << CompareCall(fArgs.df, fArgs.base_spec, fArgs.other_session) >>
    /\ fPc' = "compared"
    /\ UNCHANGED << fArgs, mergeVars, chatVars >>

\* the same two sessions with base and other exchanged
CompareExchanged ==
    /\ fPc = "compared"
    /\ fArgs.base_spec.session # NONE
    /\ fRet' = Append(fRet,
                      CompareCall(fArgs.df,
                                  [ fArgs.base_spec EXCEPT
                                      !.session = fArgs.other_session ],
                                  fArgs.base_spec.session))
    /\ fPc' = "exchanged"
    /\ UNCHANGED << fArgs, mergeVars, chatVars >>

NextCompare == CompareTwoSessions \/ CompareExchanged

SpecCompare == InitCompare /\ [][NextCompare]_vars

-----------------------------------------------------------------------------
(* Extraction harness: extract_metric_from_text on bounded question texts. *)

\* metric words and duration cues a text may hold
ExtractWords ==
    { "force", "strength", "avg_f_patient", "f_patient", "area", "rom",
      "range_of_motion", "sparc", "efficiency", "avg_path_ratio",
      "grip_strength", "duration", "how long", "weather" }

MaxWords == 2

ExtractQuestions ==
    { [ BlankQ EXCEPT !.words = w, !.sessions = s ] :
        w \in { x \in SUBSET ExtractWords : Cardinality(x) <= MaxWords },
        s \in { <<>>, << "session_1" >> } }

InitExtract ==
    /\ fArgs \in [ question : ExtractQuestions ]
    /\ fRet = <<>>
    /\ fPc = "input"
    /\ ChatIdle
    /\ MergeIdle

ExtractMetric ==
    /\ fPc = "input"
    /\ fRet' = << extract_metric_from_text(fArgs.question) >>
    /\ fPc' = "extracted"
    /\ UNCHANGED << fArgs, mergeVars, chatVars >>

NextExtract == ExtractMetric

SpecExtract == InitExtract /\ [][NextExtract]_vars

-----------------------------------------------------------------------------
(* Point harness: the base query of process_question from the fetch on:    *)
(* run_query, then is_point_query and the point or the timeseries result.  *)

PointPool ==
    << Row("2022-03-23", "46", "game0", "session_2", Num(12), Bad("nan"), Bad("nan")),
       Row("2022-03-25", "46", "game0", "session_2", Num(16), Bad("nan"), Bad("nan")),
       Row("2022-03-25", "46", "game0", "session_2", Bad("nan"), Bad("nan"), Bad("nan")),
       Row("2022-03-23", "46", "game0", "session_9", Num(14), Bad("nan"), Bad("nan")),
       Row("2022-03-10", "46", "game0", "session_9", Bad("inf"), Bad("nan"), Bad("nan")),
       Row("2022-03-23", "46", "game1", "session_2", Num(7), Bad("nan"), Bad("nan")) >>

PointDatasets ==
    { PickRows(PointPool, I, 1) : I \in SUBSET (1..Len(PointPool)) }

PointSpecs ==
    { QuerySpec("46", "area", d[1], d[2], g, s) :
        d \in { << MISSING, MISSING >>, << "2022-03-10", "2022-03-23" >>,
                << "2022-03-23", "2022-03-25" >> },
        g \in { NONE, "game0", "game1" },
        s \in { NONE, "session_2", "session_9" } }

InitPoint ==
    /\ fArgs \in [ df : PointDatasets, spec : PointSpecs ]
    /\ fRet = <<>>
    /\ fPc = "input"
    /\ ChatIdle
    /\ MergeIdle

FetchRows ==
    /\ fPc = "input"
    /\ fRet' = << run_query(fArgs.df, fArgs.spec) >>
    /\ fPc' = "fetched"
    /\ UNCHANGED << fArgs, mergeVars, chatVars >>

\* the point mode and the timeseries mode of the fetched rows
PointOrTimeseries ==
    /\ fPc = "fetched"
    /\ ~IsError(fRet[1])
    /\ fRet' = Append(fRet,
                      IF is_point_query(fArgs.spec, fRet[1].rows)
                      THEN [ type |-> "point",
                             point |-> format_point_result(fRet[1].rows,
                                                           fArgs.spec.metric) ]
                      ELSE [ type |-> "timeseries",
                             summary |-> summarize_timeseries(fRet[1],
                                                              fArgs.spec.metric,
                                                              fArgs.spec.date_start) ])
    /\ fPc' = "handled"
    /\ UNCHANGED << fArgs, mergeVars, chatVars >>

NextPoint == FetchRows \/ PointOrTimeseries

SpecPoint == InitPoint /\ [][NextPoint]_vars

-----------------------------------------------------------------------------
(* Properties of apply_followup_context (specification SpecMerge) *)

Merged == mPc = "merged" /\ mPrior # <<>>

DatesUnset(spec) == spec.date_start = MISSING /\ spec.date_end = MISSING

DateForcesNoSession(q) ==
    question_mentions_dates(q) /\ ~question_mentions_session(q)

\* the four plain inheritances of an unset, unmentioned field
InheritsUnsetUnmentioned ==
    LET out == mOut[1]  last == mPrior[1] IN
    /\ (mNew.patient = MISSING /\ ~question_mentions_patient(mQ))
          => out.patient = last.patient
    /\ (mNew.metric = MISSING /\ extract_metric_from_text(mQ) = NONE)
          => out.metric = last.metric
    /\ (mNew.game = NONE /\ ~question_mentions_game(mQ))
          => out.game = last.game
    /\ (DatesUnset(mNew) /\ ~question_mentions_dates(mQ))
          => (out.date_start = last.date_start /\ out.date_end = last.date_end)

\* a field the text mentions keeps the parsed value (the text's metric for metric)
MentionedNotInherited ==
    LET out == mOut[1] IN
    /\ question_mentions_patient(mQ) => out.patient = mNew.patient
    /\ extract_metric_from_text(mQ) # NONE
          => out.metric = extract_metric_from_text(mQ)
    /\ question_mentions_game(mQ) => out.game = mNew.game
    /\ question_mentions_session(mQ) => out.session = mNew.session
    /\ question_mentions_dates(mQ)
          => (out.date_start = mNew.date_start /\ out.date_end = mNew.date_end)

\* C1 as stated: every unset and unmentioned field, session included, carries
\* the prior value, and a mentioned field is never taken from the prior QD.
C1_AsStated ==
    Merged =>
        /\ InheritsUnsetUnmentioned
        /\ (mNew.session = NONE /\ ~question_mentions_session(mQ))
              => mOut[1].session = mPrior[1].session
        /\ MentionedNotInherited

\* C1 (amended): patient, metric, game and the date pair are inherited when
\* unset and unmentioned; session is inherited when unset and unmentioned and
\* the text mentions no date, and is None when the text mentions a date but no
\* session; a mentioned field is never taken from the prior QD.
C1_InheritUnsetUnmentioned ==
    Merged =>
        /\ InheritsUnsetUnmentioned
        /\ (mNew.session = NONE /\ ~question_mentions_session(mQ)
              /\ ~question_mentions_dates(mQ))
              => mOut[1].session = mPrior[1].session
        /\ DateForcesNoSession(mQ) => mOut[1].session = NONE
        /\ MentionedNotInherited

C1_Witness ==
    /\ Merged
    /\ mNew.session = NONE /\ mNew.game = NONE /\ DatesUnset(mNew)
    /\ mQ.sessions = <<>> /\ mQ.dates = <<>> /\ mQ.games = <<>>
    /\ mQ.patient = "46"
    /\ mPrior[1].session = "session_1" /\ mPrior[1].game = "game0"
    /\ mPrior[1].date_start = "2022-02-24"
    /\ mOut[1].session = "session_1" /\ mOut[1].game = "game0"
    /\ mOut[1].date_start = "2022-02-24"
    /\ mOut[1].patient = "46"

\* C2: a value is taken from the prior QD (and differs from the parsed one)
\* only for a field that is unset in new_qd and unmentioned in the text; the
\* text's own metric and the date rule for session are not inheritances.
C2_SetFieldsKeptAsParsed ==
    Merged =>
        LET out == mOut[1]  last == mPrior[1] IN
        /\ (out.patient # mNew.patient /\ out.patient = last.patient)
              => (mNew.patient = MISSING /\ ~question_mentions_patient(mQ))
        /\ (extract_metric_from_text(mQ) = NONE /\ out.metric # mNew.metric
              /\ out.metric = last.metric)
              => mNew.metric = MISSING
        /\ (out.game # mNew.game /\ out.game = last.game)
              => (mNew.game = NONE /\ ~question_mentions_game(mQ))
        /\ (~DateForcesNoSession(mQ) /\ out.session # mNew.session
              /\ out.session = last.session)
              => (mNew.session = NONE /\ ~question_mentions_session(mQ))

\* C3: a metric word in the text decides the merged metric, the unmentioned
\* patient and game are inherited, and the merged QD passes the allow-list
\* validation that follows the merge.
C3_TextMetricWinsAndIsAllowed ==
    (Merged /\ extract_metric_from_text(mQ) # NONE) =>
        LET out == mOut[1]  last == mPrior[1] IN
        /\ out.metric = extract_metric_from_text(mQ)
        /\ (mNew.patient = MISSING /\ ~question_mentions_patient(mQ))
              => out.patient = last.patient
        /\ (mNew.game = NONE /\ ~question_mentions_game(mQ))
              => out.game = last.game
        /\ MetricAllowed(out)

\* C4: a date without a session in the text forces session = None; in every
\* other case the merged session is the prior one exactly when the parsed
\* session is unset and the text mentions no session, and the parsed one
\* otherwise.
C4_SessionRule ==
    Merged =>
        LET out == mOut[1]  last == mPrior[1] IN
        IF DateForcesNoSession(mQ) THEN out.session = NONE
        ELSE IF mNew.session = NONE /\ ~question_mentions_session(mQ)
             THEN out.session = last.session
             ELSE out.session = mNew.session

-----------------------------------------------------------------------------
(* Properties of process_question (specification Spec) *)

Asked == turn # NoTurn

TurnQ == turn.q[1]

Resp == turn.resp[1]

\* (last QD, last session-range) of the context the turn was given / returned
Given == _state_from_context(turn.given)

Returned == _state_from_context(Resp.context)

ReachedDispatch ==
    Resp.mode \in { "range_single", "range_followup", "compare_single", "base" }

TwoBoundsInRangePhrasing == Len(TurnQ.sessions) >= 2 /\ TurnQ.range # "none"

NoSessionNoDate ==
    TurnQ.sessions = <<>> /\ ~TurnQ.plural /\ TurnQ.dates = <<>>

\* C5: a turn whose response type is 'error' returns the (last QD, last
\* session-range) it was given, at whatever stage it fails.
C5_ErrorKeepsContext ==
    Asked => (Resp.type = "error" => Returned = Given)

\* C6: when the point formatting, the timeseries or range summary or the
\* session comparison of the turn yields an error, the response type is
\* 'error': no 'point', 'timeseries', 'session_range' or 'compare' response
\* wraps an error.
C6_FailuresAreErrors ==
    Asked => ~Resp.payload_error

\* C7: after a successful point, timeseries, session-range or single-prompt
\* comparison turn the returned last QD is the finalized QD of the turn, and
\* the state carried to the next turn is exactly the returned context.
C7_SuccessStoresFinalizedSpec ==
    Asked =>
        /\ context = Resp.context
        /\ DOMAIN Resp.context[1] = { "last_spec", "last_session_range" }
        /\ ( /\ \/ Resp.type \in { "point", "timeseries", "session_range" }
                \/ Resp.type = "compare" /\ Resp.mode = "compare_single"
             /\ ~Resp.payload_error )
           => (Resp.spec # <<>> /\ Returned.last_spec = Resp.spec)

C7_Witness ==
    /\ Asked
    /\ Resp.type = "timeseries" /\ ~Resp.payload_error
    /\ TurnQ.cue = "how about" /\ TurnQ.patient = NONE
    /\ Resp.spec[1] # Resp.parsed[1]
    /\ Resp.spec[1].patient = "46"
    /\ Returned.last_spec = Resp.spec
    /\ Given.last_spec # Returned.last_spec

\* C8 as stated: two session bounds in range phrasing are always handled as a
\* session range, and while the context holds a range every turn that mentions
\* no session number and no date (and is no reset) is handled as a session
\* range over it.
C8_AsStated ==
    Asked =>
        /\ TwoBoundsInRangePhrasing => Resp.mode = "range_single"
        /\ ( /\ Given.last_session_range # <<>>
             /\ NoSessionNoDate
             /\ TurnQ.command \notin RESET_COMMANDS )
           => ( /\ Resp.mode = "range_followup"
                /\ Resp.range = Given.last_session_range )

\* C8 (amended): a turn that reaches the mode dispatch with two session bounds
\* in range phrasing is handled as a session range over those bounds; a turn
\* that reaches the dispatch with a range in its context and no session or
\* date in its text is handled as a session range over that range with the
\* merged QD, never as point, timeseries or comparison; a successful range
\* turn stores its range; and the range leaves the context only when the text
\* mentions a session or dates, a single-prompt comparison runs, or on reset.
C8_RangeAtDispatch ==
    Asked =>
        /\ (ReachedDispatch /\ TwoBoundsInRangePhrasing)
           => ( /\ Resp.mode = "range_single"
                /\ Resp.range = << TurnQ.sessions[1], TurnQ.sessions[2] >> )
        /\ ( /\ ReachedDispatch
             /\ ~TwoBoundsInRangePhrasing
             /\ Given.last_session_range # <<>>
             /\ NoSessionNoDate )
           => ( /\ Resp.mode = "range_followup"
                /\ Resp.range = Given.last_session_range )
        /\ Resp.mode \in { "range_single", "range_followup" }
           => ( /\ Resp.type \in { "session_range", "error" }
                /\ Resp.type = "session_range"
                   => ( /\ Returned.last_session_range = Resp.range
                        /\ Returned.last_spec = Resp.spec ) )
        /\ ( /\ Given.last_session_range # <<>>
             /\ Returned.last_session_range # Given.last_session_range )
           => \/ question_mentions_session(TurnQ)
              \/ question_mentions_dates(TurnQ)
              \/ Resp.mode = "compare_single" /\ Resp.type = "compare"
              \/ Resp.mode = "reset"

C8_Witness ==
    /\ Asked
    /\ Given.last_session_range = << "session_1", "session_3" >>
    /\ Given.last_spec[1].metric = "area"
    /\ TurnQ.cue = "what about" /\ TurnQ.words = { "sparc" }
    /\ Resp.mode = "range_followup" /\ Resp.type = "session_range"
    /\ Resp.spec[1].metric = "average_sparc"
    /\ Resp.range = << "session_1", "session_3" >>
    /\ Returned.last_session_range = << "session_1", "session_3" >>

\* the text conditions of a follow-up comparison turn
FollowupCompareAsked ==
    /\ TurnQ.command \notin RESET_COMMANDS
    /\ ~TurnQ.gender
    /\ ~TurnQ.defn
    /\ IsFollowupCompare(TurnQ, Given)

C10_ResetThenFirstTurn ==
    Asked =>
        /\ TurnQ.command \in RESET_COMMANDS
           => ( /\ Resp.type = "reset"
                /\ Resp.context = _context_from_state(<<>>, <<>>)
                /\ Returned = [ last_spec |-> <<>>, last_session_range |-> <<>> ] )
        /\ turn.given = _context_from_state(<<>>, <<>>)
           => Resp = process_question(TurnQ, DF, <<>>, turn.llm)

C10_Witness ==
    /\ Asked
    /\ TurnQ.command = "reset"
    /\ Given.last_spec # <<>> /\ Given.last_session_range # <<>>
    /\ Resp.context = _context_from_state(<<>>, <<>>)

\* a session-comparison question that names two metrics
MultiMetricCompareAsked ==
    /\ Asked
    /\ HasCompareWord(TurnQ)
    /\ question_mentions_session(TurnQ)
    /\ Cardinality(extract_metrics_from_text(TurnQ)) >= 2

\* C11: a session-comparison question naming two metrics is answered with the
\* error 'Multiple metrics were requested in one session comparison' (the
\* response of a branch "multi_metric"), with an empty context and with a
\* context that carries a session range alike.
C11_MultiMetricCompareRejected ==
    MultiMetricCompareAsked =>
        /\ Resp.type = "error"
        /\ Resp.mode = "multi_metric"
\* C12: a question holding a snake_case token that is no allow-listed metric
\* is rejected as an error by the parser step, before the merge; it never
\* gets a point, timeseries, session-range or comparison answer.
C12_DisallowedTokenRejected ==
    (Asked /\ _find_disallowed_metric_token(TurnQ)) =>
        /\ Resp.type = "error"
        /\ Resp.mode = "parse"
        /\ Resp.type \notin { "point", "timeseries", "session_range", "compare" }
\* a question that gives a date range and names no game and no session
DateRangeNoGameAsked ==
    /\ Asked
    /\ Len(extract_dates_from_text(TurnQ)) >= 2
    /\ ~question_mentions_game(TurnQ)
    /\ ~question_mentions_session(TurnQ)
    /\ detect_relative_session_cue(TurnQ) = NONE

\* C13: a date-range question that names no game is rejected as an error,
\* also when the context holds a game: the finalized QD never carries a game
\* for it (none is inherited), so no rows are fetched.
C13_DateRangeWithoutGameRejected ==
    DateRangeNoGameAsked =>
        /\ Resp.type = "error"
        /\ Resp.spec # <<>> => Resp.spec[1].game = NONE

\* the turn's finalized QD went to run_query
FetchedByBaseQuery == Asked /\ Resp.mode = "base" /\ Resp.spec # <<>>

\* C23: a finalized QD that is passed to the fetch with a session set, in a
\* turn whose text mentions no date, has date_start and date_end both
\* MISSING: no dates of an earlier date-range turn filter its rows.
C23_SessionQueryCarriesNoDates ==
    (FetchedByBaseQuery /\ Resp.spec[1].session # NONE
        /\ ~question_mentions_dates(TurnQ)) =>
            DatesUnset(Resp.spec[1])

\* the text holds a relative session cue and the turn went to the parser
RelativeCueParsed ==
    /\ Asked
    /\ detect_relative_session_cue(TurnQ) # NONE
    /\ Resp.mode \notin { "reset", "gender", "definition", "followup_compare" }

\* the resolver's answer for the cue of the turn against the prior QD
CueResolved ==
    resolve_relative_session(DF, Given.last_spec[1],
                             detect_relative_session_cue(TurnQ))

-----------------------------------------------------------------------------
(* Properties of one request with a client-made context (specification    *)
(* SpecRequest)                                                            *)

\* the allow-list validation of chat_service.py passes for spec
StrictlyValid(spec) ==
    MetricAllowed(spec) /\ GameAllowed(spec) /\ SessionAllowed(spec)

\* rows were filtered with the QD of the response: the dispatched modes, and
\* the follow-up comparison once it compares
UsedForFiltering ==
    /\ Asked
    /\ Resp.spec # <<>>
    /\ \/ ReachedDispatch
       \/ Resp.mode = "followup_compare" /\ Resp.type = "compare"

\* C24: whatever the incoming context, a QD that is used for row filtering
\* or that the turn stores as last QD has an allow-listed metric (or
\* MISSING), an allowed game (or None) and a session of the form
\* session_<n> (or None / MULTI).
C24_FilteringSpecsAreValidated ==
    Asked =>
        /\ UsedForFiltering => StrictlyValid(Resp.spec[1])
        /\ (Returned.last_spec # <<>> /\ Returned.last_spec # Given.last_spec)
              => StrictlyValid(Returned.last_spec[1])
-----------------------------------------------------------------------------
(* Properties of resolve_relative_session (specification SpecResolve) *)

ResolveBase == fArgs.base_spec

\* the session strings of the base patient and game that carry a number
ResolveSessions ==
    { fArgs.df[i].session :
        i \in { j \in 1..Len(fArgs.df) :
                  /\ fArgs.df[j].patient = ResolveBase.patient
                  /\ fArgs.df[j].game = ResolveBase.game
                  /\ session_number(fArgs.df[j].session) # -1 } }

\* the preconditions of the resolver hold and some session is comparable
ResolvePreconditions ==
    /\ ResolveBase.session # NONE
    /\ ResolveBase.patient # MISSING
    /\ ResolveBase.game # NONE
    /\ session_number(ResolveBase.session) # -1
    /\ ResolveSessions # {}

\* the base session is a session of the dataset for the base patient and
\* game, and the only one there with its number
BaseSessionInDataset ==
    /\ ResolveBase.session \in ResolveSessions
    /\ \A t \in ResolveSessions :
          session_number(t) = session_number(ResolveBase.session)
              => t = ResolveBase.session

\* C14 as stated: whenever "next" from the base and "previous" from the
\* resolved session both resolve, the second result is the base session.
C14_AsStated ==
    (fPc = "back" /\ ResolvePreconditions /\ fRet[2].error = "") =>
        fRet[2].session = ResolveBase.session

\* C14: when the base session is a session of the dataset for the base
\* patient and game (the only one with its number) and "next" resolves,
\* "previous" from the resolved session resolves to the base session.
C14_NextThenPreviousReturnsBase ==
    (fPc = "back" /\ ResolvePreconditions /\ BaseSessionInDataset) =>
        /\ fRet[2].error = ""
        /\ fRet[2].session = ResolveBase.session

C14_Witness ==
    /\ fPc = "back"
    /\ ResolvePreconditions
    /\ BaseSessionInDataset
    /\ ResolveBase.session = "session_3"
    /\ { "session_1", "session_2", "session_9", "session_10" } \subseteq ResolveSessions
    /\ fRet[1].session = "session_9"
    /\ fRet[2].session = "session_3"

\* C15: the resolver orders the sessions of the base patient and game by
\* their number: first -> a session with the smallest number, latest -> one
\* with the largest, previous -> one with the largest number below the base
\* number or the 'no previous session' error, next -> one with the smallest
\* number above it or the 'no next session' error.
C15_ResolvesByNumber ==
    (fPc # "input" /\ ResolvePreconditions) =>
        LET r == fRet[1]
            n == session_number(r.session)
            base_num == session_number(ResolveBase.session)
            nums == { session_number(t) : t \in ResolveSessions }
        IN
        /\ r.error = "" => r.session \in ResolveSessions
        /\ fArgs.cue = "first" =>
              r.error = "" /\ \A m \in nums : n <= m
        /\ fArgs.cue = "latest" =>
              r.error = "" /\ \A m \in nums : n >= m
        /\ fArgs.cue = "previous" =>
              IF \E m \in nums : m < base_num
              THEN /\ r.error = ""
                   /\ n < base_num
                   /\ \A m \in nums : m < base_num => m <= n
              ELSE r.error = "No previous session found before the current session."
        /\ fArgs.cue = "next" =>
              IF \E m \in nums : m > base_num
              THEN /\ r.error = ""
                   /\ n > base_num
                   /\ \A m \in nums : m > base_num => n <= m
              ELSE r.error = "No next session found after the current session."

\* "next" from session_9 is session_10, which sorts before it as a string and
\* has an earlier date than session_3
C15_Witness ==
    /\ fPc = "resolved"
    /\ ResolvePreconditions
    /\ fArgs.cue = "next"
    /\ ResolveBase.session = "session_9"
    /\ { "session_1", "session_3", "session_10" } \subseteq ResolveSessions
    /\ fRet[1].session = "session_10"
-----------------------------------------------------------------------------
(* Properties of run_query and run_session_range (specification SpecQuery) *)

FetchSpec == fArgs.spec

FetchResult == fRet[1]

\* the fields check (1) of run_query names for FetchSpec
MissingPatientMetric ==
    (IF FetchSpec.patient = MISSING THEN << "patient_id" >> ELSE <<>>)
    \o (IF FetchSpec.metric = MISSING THEN << "metric" >> ELSE <<>>)

\* C16: run_query returns the first failing check, in the order (1) patient
\* or metric MISSING -> 'missing required info' naming every missing field,
\* (2) session set and game None -> the session game error, (3) session unset
\* and game None -> the date-range game error, (4) session unset and
\* date_start MISSING -> missing date_start, (5) metric not a column -> the
\* column error; each as an error row, never a row list.
C16_ValidationOrder ==
    fPc = "queried" =>
        IF MissingPatientMetric # <<>>
        THEN /\ FetchResult.err = "Missing required info"
             /\ \A k \in 1..Len(MissingPatientMetric) :
                   \E j \in 1..Len(FetchResult.names) :
                       FetchResult.names[j] = MissingPatientMetric[k]
             /\ FetchResult.rows = <<>>
        ELSE IF FetchSpec.session # NONE /\ FetchSpec.game = NONE
        THEN /\ FetchResult.err = "For session-based queries, please specify a game"
             /\ FetchResult.rows = <<>>
        ELSE IF FetchSpec.session = NONE /\ FetchSpec.game = NONE
        THEN /\ FetchResult.err = "Please specify a game for date-range queries"
             /\ FetchResult.rows = <<>>
        ELSE IF FetchSpec.session = NONE /\ FetchSpec.date_start = MISSING
        THEN /\ FetchResult.err = "Missing required info"
             /\ FetchResult.names = << "date_start" >>
             /\ FetchResult.rows = <<>>
        ELSE IF FetchSpec.metric \notin DFColumns
        THEN /\ FetchResult.err = "Metric column not found in CSV"
             /\ FetchResult.rows = <<>>
        ELSE TRUE
\* FetchSpec passes the five validations of run_query
FetchPassesValidation ==
    /\ FetchSpec.patient # MISSING
    /\ FetchSpec.metric # MISSING
    /\ FetchSpec.game # NONE
    /\ FetchSpec.session = NONE => FetchSpec.date_start # MISSING
    /\ FetchSpec.metric \in DFColumns

\* the dataset rows a valid FetchSpec asks for
FetchQualifying ==
    { i \in 1..Len(fArgs.df) :
        /\ Strip(fArgs.df[i].patient) = FetchSpec.patient
        /\ fArgs.df[i].game = FetchSpec.game
        /\ FetchSpec.session # NONE => fArgs.df[i].session = FetchSpec.session
        /\ (FetchSpec.date_start # MISSING /\ FetchSpec.date_end # MISSING) =>
              /\ DateNum(FetchSpec.date_start) <= DateNum(fArgs.df[i].date)
              /\ DateNum(fArgs.df[i].date) <= DateNum(FetchSpec.date_end) }

\* the dataset rows of the patient and game with a session number in the range
RangeQualifying ==
    LET a == session_number(fArgs.range[1])
        b == session_number(fArgs.range[2])
    IN { i \in 1..Len(fArgs.df) :
           /\ Strip(fArgs.df[i].patient) = FetchSpec.patient
           /\ fArgs.df[i].game = FetchSpec.game
           /\ \/ a <= session_number(fArgs.df[i].session)
                 /\ session_number(fArgs.df[i].session) <= b
              \/ b <= session_number(fArgs.df[i].session)
                 /\ session_number(fArgs.df[i].session) <= a }

\* the returned row r is the dataset row i with its value made safe
IsRowOf(r, i) ==
    /\ r.date = fArgs.df[i].date
    /\ r.patient = fArgs.df[i].patient
    /\ r.game = fArgs.df[i].game
    /\ r.session = fArgs.df[i].session
    /\ r.metric_value = IF fArgs.df[i].cells[FetchSpec.metric].k = "num"
                        THEN << fArgs.df[i].cells[FetchSpec.metric].v >>
                        ELSE <<>>

\* rows holds every dataset row of the index set want as often as want does,
\* and nothing else
ExactlyTheRows(rows, want) ==
    /\ Len(rows) = Cardinality(want)
    /\ \A k \in 1..Len(rows) : \E i \in want : IsRowOf(rows[k], i)
    /\ \A i \in want :
          Cardinality({ k \in 1..Len(rows) : IsRowOf(rows[k], i) })
              = Cardinality({ j \in want : IsRowOf(OutRow(fArgs.df[j], FetchSpec.metric), i) })

\* r1 does not sort after r2 by (date, game, session)
DateGameSessionOrdered(r1, r2) ==
    \/ DateNum(r1.date) < DateNum(r2.date)
    \/ /\ r1.date = r2.date
       /\ \/ GameStrKey(r1.game) < GameStrKey(r2.game)
          \/ /\ r1.game = r2.game
             /\ SessionStrKey(r1.session) <= SessionStrKey(r2.session)

\* r1 does not sort after r2 by (session, date)
SessionDateOrdered(r1, r2) ==
    \/ SessionStrKey(r1.session) < SessionStrKey(r2.session)
    \/ /\ r1.session = r2.session
       /\ DateNum(r1.date) <= DateNum(r2.date)

\* C17: for a QD that passes validation run_query returns exactly the rows
\* of the trimmed patient, the game, the session when one is set and the
\* inclusive date range when both dates are set, ordered by (date, game,
\* session), and the 'no matching rows' error when no row qualifies.
C17_ExactRowsInOrder ==
    (fPc = "queried" /\ FetchPassesValidation) =>
        IF FetchQualifying = {}
        THEN FetchResult.err = "No matching rows found" /\ FetchResult.rows = <<>>
        ELSE /\ FetchResult.err = ""
             /\ ExactlyTheRows(FetchResult.rows, FetchQualifying)
             /\ \A k \in 1..(Len(FetchResult.rows) - 1) :
                   DateGameSessionOrdered(FetchResult.rows[k], FetchResult.rows[k + 1])

\* a date range whose end date has a row, with a later row left out and a row
\* whose patient_id needs trimming
C17_Witness ==
    /\ fPc = "queried"
    /\ FetchPassesValidation
    /\ FetchSpec.session = NONE
    /\ FetchSpec.date_end = "2022-03-23"
    /\ Len(FetchResult.rows) = 3
    /\ FetchResult.rows[1].patient = " 46 "
    /\ FetchResult.rows[1].session = "session_10"
    /\ FetchResult.rows[2].session = "session_9"
    /\ FetchResult.rows[3].date = "2022-03-23"
    /\ \E i \in 1..Len(fArgs.df) :
          /\ fArgs.df[i].date = "2022-03-25"
          /\ fArgs.df[i].patient = "46"
          /\ fArgs.df[i].game = "game0"

\* C18: every row run_query or run_session_range returns has a metric_value
\* that is the finite source number, or null when the source value is
\* missing, non-numeric text or infinite; rows with a null value are
\* returned in their sorted position, not dropped.
C18_ValuesFiniteOrNull ==
    (fPc \in { "queried", "ranged" } /\ FetchResult.err = "") =>
        /\ \A k \in 1..Len(FetchResult.rows) :
              \E i \in 1..Len(fArgs.df) : IsRowOf(FetchResult.rows[k], i)
        /\ fPc = "queried" =>
              /\ ExactlyTheRows(FetchResult.rows, FetchQualifying)
              /\ \A k \in 1..(Len(FetchResult.rows) - 1) :
                    DateGameSessionOrdered(FetchResult.rows[k], FetchResult.rows[k + 1])
        /\ fPc = "ranged" =>
              /\ ExactlyTheRows(FetchResult.rows, RangeQualifying)
              /\ \A k \in 1..(Len(FetchResult.rows) - 1) :
                    SessionDateOrdered(FetchResult.rows[k], FetchResult.rows[k + 1])

\* four returned rows: an infinite value, two numbers and a text value
C18_Witness ==
    /\ fPc = "queried"
    /\ FetchSpec.metric = "area"
    /\ FetchResult.err = ""
    /\ Len(FetchResult.rows) = 4
    /\ FetchResult.rows[1].metric_value = <<>>
    /\ FetchResult.rows[2].metric_value = << 9 >>
    /\ FetchResult.rows[3].metric_value = << 12 >>
    /\ FetchResult.rows[4].metric_value = <<>>
    /\ \E i, j \in 1..Len(fArgs.df) :
          /\ IsRowOf(FetchResult.rows[1], i) /\ fArgs.df[i].cells["area"].k = "inf"
          /\ IsRowOf(FetchResult.rows[4], j) /\ fArgs.df[j].cells["area"].k = "text"
-----------------------------------------------------------------------------
(* Properties of summarize_timeseries and summarize_session_range          *)
(* (specification SpecSummary)                                             *)

SummaryOut == fRet[1]

\* the field the groups are keyed by
GroupField == IF fPc = "by_date" THEN "date" ELSE "session"

\* the input rows with a valid value and the key k
ValidRowsOf(k) ==
    { i \in 1..Len(fArgs.results.rows) :
        /\ fArgs.results.rows[i].metric_value # <<>>
        /\ fArgs.results.rows[i][GroupField] = k }

ValidKeys ==
    { fArgs.results.rows[i][GroupField] :
        i \in { j \in 1..Len(fArgs.results.rows) :
                  fArgs.results.rows[j].metric_value # <<>> } }

RECURSIVE SumValues(_)
SumValues(I) ==
    IF I = {} THEN 0
    ELSE LET i == CHOOSE x \in I : TRUE
         IN fArgs.results.rows[i].metric_value[1] + SumValues(I \ { i })

\* the position of a group key in the ascending order of the groups
KeyOrder(k) == IF fPc = "by_date" THEN DateNum(k) ELSE session_number(k)

Summarized ==
    /\ fPc \in { "by_date", "by_session" }
    /\ fArgs.results.err = ""
    /\ ValidKeys # {}

\* C19: the summaries hold one group per distinct key of the rows with a
\* valid value, in ascending order of date or of session number, with
\* change = mean(last group) - mean(first group) and relative_change_pct =
\* change / |mean(first group)| * 100; session means 0.10, 0.12, 0.09 with
\* the first session requested give change -0.01, -10.0 percent and no
\* baseline_note.
C19_GroupsAndChange ==
    Summarized =>
        LET g == SummaryOut.groups
            first == g[1].mean
            last == g[Len(g)].mean
        IN
        /\ SummaryOut.error = ""
        /\ Len(g) = Cardinality(ValidKeys)
        /\ { g[n].key : n \in 1..Len(g) } = ValidKeys
        /\ \A n \in 1..Len(g) :
              /\ g[n].n = Cardinality(ValidRowsOf(g[n].key))
              /\ g[n].mean.den > 0
              /\ g[n].mean.num * g[n].n = SumValues(ValidRowsOf(g[n].key)) * g[n].mean.den
        /\ \A n \in 1..(Len(g) - 1) :
              IF fPc = "by_date" THEN KeyOrder(g[n].key) < KeyOrder(g[n + 1].key)
              ELSE KeyOrder(g[n].key) <= KeyOrder(g[n + 1].key)
        /\ FracEq(SummaryOut.change, FracSub(last, first))
        /\ first.num # 0 =>
              /\ SummaryOut.relative_change_pct # <<>>
              /\ SummaryOut.relative_change_pct[1].den > 0
              /\ SummaryOut.relative_change_pct[1].num * SummaryOut.change.den
                    * Abs(first.num)
                  = SummaryOut.change.num * first.den * 100
                    * SummaryOut.relative_change_pct[1].den
        /\ (/\ fPc = "by_session"
            /\ Len(g) = 3
            /\ g[1].mean = [ num |-> 10, den |-> 1 ]
            /\ g[2].mean = [ num |-> 12, den |-> 1 ]
            /\ g[3].mean = [ num |-> 9, den |-> 1 ]
            /\ fArgs.session_start = g[1].key) =>
              /\ FracEq(SummaryOut.change, [ num |-> -1, den |-> 1 ])
              /\ FracEq(SummaryOut.relative_change_pct[1], [ num |-> -10, den |-> 1 ])
              /\ SummaryOut.baseline_note = <<>>

\* sessions 1, 2, 3 with means 0.10, 0.12, 0.09 and session 1 requested
C19_Witness ==
    /\ Summarized
    /\ fPc = "by_session"
    /\ fArgs.session_start = "session_1"
    /\ Len(SummaryOut.groups) = 3
    /\ SummaryOut.groups[1].key = "session_1"
    /\ SummaryOut.groups[1].mean = [ num |-> 10, den |-> 1 ]
    /\ SummaryOut.groups[2].mean = [ num |-> 12, den |-> 1 ]
    /\ SummaryOut.groups[3].mean = [ num |-> 9, den |-> 1 ]
    /\ FracEq(SummaryOut.change, [ num |-> -1, den |-> 1 ])
    /\ FracEq(SummaryOut.relative_change_pct[1], [ num |-> -10, den |-> 1 ])
    /\ SummaryOut.baseline_note = <<>>

\* the start the caller asked for
RequestedStart ==
    IF fPc = "by_date" THEN fArgs.requested_start ELSE fArgs.session_start

\* C28: baseline_note is set exactly when a requested start (date_start for
\* a timeseries, the start session for a session range) is given and is not
\* the key of the first group of the data, and then names that first key;
\* when the requested start is the first group's key it is null.
C28_BaselineNote ==
    Summarized =>
        LET first == SummaryOut.groups[1].key IN
        /\ first \in ValidKeys
        /\ \A k \in ValidKeys : KeyOrder(first) <= KeyOrder(k)
        /\ SummaryOut.baseline_note =
              IF RequestedStart # NONE /\ RequestedStart # first
              THEN << first >> ELSE <<>>

\* the date 2022-02-24 is requested, the first date with a valid value is
\* 2022-03-10
C28_Witness ==
    /\ Summarized
    /\ fPc = "by_date"
    /\ fArgs.requested_start = "2022-02-24"
    /\ SummaryOut.baseline_note = << "2022-03-10" >>
-----------------------------------------------------------------------------
(* Properties of classify_trend (specification SpecTrend) *)

TrendLabel == fRet[1]

\* at least two group means, each greater than the one before
MonotonicallyIncreasing ==
    /\ Len(fArgs.means) >= 2
    /\ \A i \in 1..(Len(fArgs.means) - 1) : fArgs.means[i] < fArgs.means[i + 1]

\* the rise to mean i + 1 is more than 1e-6 and more than one hundredth of the
\* absolute value of the first mean (the means are whole hundredths)
RiseAboveNoise(i) ==
    /\ fArgs.means[i + 1] - fArgs.means[i] >= 1
    /\ 100 * (fArgs.means[i + 1] - fArgs.means[i]) > Abs(fArgs.means[1])

\* C20 as stated: every monotonically increasing sequence of at least two
\* group means is labelled 'improving'.
C20_AsStated ==
    (fPc = "classified" /\ MonotonicallyIncreasing) => TrendLabel = "improving"

\* C20: a monotonically increasing sequence of at least two group means is
\* labelled 'improving' when some rise exceeds the noise threshold
\* max(1e-6, 0.01 * |first mean|), and 'no clear trend' when none does.
C20_IncreasingAboveNoiseImproves ==
    (fPc = "classified" /\ MonotonicallyIncreasing) =>
        IF \E i \in 1..(Len(fArgs.means) - 1) : RiseAboveNoise(i)
        THEN TrendLabel = "improving"
        ELSE TrendLabel = "no clear trend"

\* the means 1.0, 1.2, 1.5, 2.0
C20_Witness ==
    /\ fPc = "classified"
    /\ fArgs.means = << 100, 120, 150, 200 >>
    /\ MonotonicallyIncreasing
    /\ TrendLabel = "improving"

\* the fall to mean i + 1 is more than the noise threshold
FallAboveNoise(i) ==
    /\ fArgs.means[i] - fArgs.means[i + 1] >= 1
    /\ 100 * (fArgs.means[i] - fArgs.means[i + 1]) > Abs(fArgs.means[1])

TrendSteps == 1..(Len(fArgs.means) - 1)

ImprovingSteps == Cardinality({ i \in TrendSteps : RiseAboveNoise(i) })

WorseningSteps == Cardinality({ i \in TrendSteps : FallAboveNoise(i) })

\* share of n among the non-flat steps is below 80%
BelowSuperMajority(n) == n * 10 < 8 * (ImprovingSteps + WorseningSteps)

\* every step exceeds the noise threshold, consecutive steps have opposite
\* signs, and the sign changes at least twice
AlternatingAboveNoise ==
    /\ Len(fArgs.means) >= 4
    /\ \A i \in TrendSteps : RiseAboveNoise(i) \/ FallAboveNoise(i)
    /\ \A i \in TrendSteps : i + 1 \in TrendSteps =>
            (RiseAboveNoise(i) <=> FallAboveNoise(i + 1))

\* C21: with at least two groups the label is 'variable' exactly when
\* improving and worsening steps both occur and neither reaches 80% of the
\* non-flat steps; an alternating sequence with several sign changes whose
\* steps all exceed the noise threshold is 'variable'.
C21_VariableWhenMixed ==
    (fPc = "classified" /\ Len(fArgs.means) >= 2) =>
        /\ TrendLabel = "variable" <=>
                /\ ImprovingSteps > 0
                /\ WorseningSteps > 0
                /\ BelowSuperMajority(ImprovingSteps)
                /\ BelowSuperMajority(WorseningSteps)
        /\ AlternatingAboveNoise => TrendLabel = "variable"

\* the means 1.0, 1.3, 0.9, 1.4, 0.85
C21_Witness ==
    /\ fPc = "classified"
    /\ fArgs.means = << 100, 130, 90, 140, 85 >>
    /\ AlternatingAboveNoise
    /\ TrendLabel = "variable"

\* four rises and one fall: both directions occur, the rises reach 80%
C21_SuperMajorityWitness ==
    /\ fPc = "classified"
    /\ ImprovingSteps = 4
    /\ WorseningSteps = 1
    /\ TrendLabel = "improving"

\* C26: with at least two groups classify_trend returns a label; it is
\* 'no clear trend' exactly when no step exceeds the noise threshold in
\* either direction, otherwise improving, worsening or variable; when the
\* non-flat steps all go one way the label is that direction.
C26_AlwaysALabel ==
    (fPc = "classified" /\ Len(fArgs.means) >= 2) =>
        /\ TrendLabel \in { "no clear trend", "improving", "worsening", "variable" }
        /\ TrendLabel = "no clear trend" <=> ImprovingSteps + WorseningSteps = 0
        /\ (ImprovingSteps > 0 /\ WorseningSteps = 0) => TrendLabel = "improving"
        /\ (WorseningSteps > 0 /\ ImprovingSteps = 0) => TrendLabel = "worsening"

\* a flat step and a fall: the only non-flat step is a worsening one
C26_Witness ==
    /\ fPc = "classified"
    /\ Len(fArgs.means) = 3
    /\ ImprovingSteps = 0
    /\ WorseningSteps = 1
    /\ TrendLabel = "worsening"

-----------------------------------------------------------------------------
(* Properties of compare_two_sessions (specification SpecCompare) *)

CompareBase == fArgs.base_spec

CompareReport == fRet[1].report

\* the rows of the dataset of the base patient and game with session s
SessionRowsOf(s) ==
    { i \in 1..Len(fArgs.df) :
        /\ Strip(fArgs.df[i].patient) = CompareBase.patient
        /\ fArgs.df[i].game = CompareBase.game
        /\ fArgs.df[i].session = s }

\* the earliest date of session s
EarliestDate(s) ==
    CHOOSE d \in { DateNum(fArgs.df[i].date) : i \in SessionRowsOf(s) } :
        \A i \in SessionRowsOf(s) : d <= DateNum(fArgs.df[i].date)

\* the sum of the base metric over the dataset rows with an index in I
RECURSIVE SumValuesOf(_)
SumValuesOf(I) ==
    IF I = {} THEN 0
    ELSE LET i == CHOOSE x \in I : TRUE
         IN fArgs.df[i].cells[fArgs.base_spec.metric].v + SumValuesOf(I \ { i })

\* the mean of the valid values of the base metric in session s
SessionMean(s) ==
    LET valid == { i \in SessionRowsOf(s) : fArgs.df[i].cells[CompareBase.metric].k = "num" }
    IN [ num |-> SumValuesOf(valid), den |-> Cardinality(valid) ]

\* session a is labelled earlier than session b when a is the base
BaseIsEarlier(a, b) ==
    IF session_number(a) # -1 /\ session_number(b) # -1
       /\ session_number(a) # session_number(b)
    THEN session_number(a) < session_number(b)
    ELSE EarliestDate(a) <= EarliestDate(b)

\* C22: the two sessions are labelled earlier / later by parsed session
\* number when the numbers are distinct, otherwise by earliest date when the
\* dates differ, otherwise base = earlier; the change is mean(later) minus
\* mean(earlier).
C22_EarlierLaterLabelling ==
    (fPc = "compared" /\ CompareReport.error = "") =>
        LET a == CompareBase.session
            b == fArgs.other_session
            earlier == IF BaseIsEarlier(a, b) THEN a ELSE b
            later == IF BaseIsEarlier(a, b) THEN b ELSE a
        IN /\ CompareReport.session_earlier = earlier
           /\ CompareReport.session_later = later
           /\ FracEq(CompareReport.value_earlier, SessionMean(earlier))
           /\ FracEq(CompareReport.value_later, SessionMean(later))
           /\ FracEq(CompareReport.change_later_minus_earlier,
                     FracSub(SessionMean(later), SessionMean(earlier)))

\* compare(base session_4, other session_1), session_4 holding the earliest
\* date of the two
C22_Witness ==
    /\ fPc = "compared"
    /\ CompareBase.session = "session_4"
    /\ fArgs.other_session = "session_1"
    /\ CompareReport.error = ""
    /\ EarliestDate("session_4") < EarliestDate("session_1")
    /\ CompareReport.session_earlier = "session_1"
    /\ FracEq(CompareReport.change_later_minus_earlier, [ num |-> 8, den |-> 1 ])

ExchangedReport == fRet[2].report

\* the fields of a report that do not name the base
OrderedFields(r) ==
    << r.session_earlier, r.session_later, r.value_earlier, r.value_later,
       r.change_later_minus_earlier, r.relative_change_pct_vs_earlier >>

\* the caller's base_spec is as it was before each call
BaseSpecUntouched ==
    /\ fRet[1].base_spec = CompareBase
    /\ fPc = "exchanged" =>
            fRet[2].base_spec = [ CompareBase EXCEPT !.session = fArgs.other_session ]

\* the two sessions are the same, or their parsed numbers are distinct, or
\* their earliest dates differ
OrderDecided ==
    LET a == CompareBase.session
        b == fArgs.other_session
    IN \/ a = b
       \/ /\ session_number(a) # -1
          /\ session_number(b) # -1
          /\ session_number(a) # session_number(b)
       \/ EarliestDate(a) # EarliestDate(b)

\* C30 as stated: compare(base = A, other = B) and compare(base = B,
\* other = A) report the same earlier / later sessions, values, change and
\* relative change, and the call leaves base_spec unmodified.
C30_AsStated ==
    (fPc = "exchanged" /\ CompareReport.error = "" /\ ExchangedReport.error = "") =>
        /\ OrderedFields(CompareReport) = OrderedFields(ExchangedReport)
        /\ BaseSpecUntouched

\* C30: the call leaves base_spec unmodified; the two calls both succeed or
\* both fail; and they report the same earlier / later sessions, values,
\* change and relative change when the two sessions have distinct parsed
\* numbers or distinct earliest dates (or are one session); otherwise each
\* call reports its own base session as the earlier one.
C30_SymmetricWhenOrderDecided ==
    /\ fPc \in { "compared", "exchanged" } => BaseSpecUntouched
    /\ fPc = "exchanged" =>
        /\ CompareReport.error = "" <=> ExchangedReport.error = ""
        /\ CompareReport.error = "" =>
              IF OrderDecided
              THEN OrderedFields(CompareReport) = OrderedFields(ExchangedReport)
              ELSE /\ CompareReport.session_earlier = CompareBase.session
                   /\ ExchangedReport.session_earlier = fArgs.other_session

\* base session_4 with dates set, other session_1: both calls succeed
C30_Witness ==
    /\ fPc = "exchanged"
    /\ CompareBase.session = "session_4"
    /\ CompareBase.date_start = "2022-03-23"
    /\ fArgs.other_session = "session_1"
    /\ CompareReport.error = ""
    /\ ExchangedReport.session_earlier = "session_1"
    /\ OrderedFields(CompareReport) = OrderedFields(ExchangedReport)

-----------------------------------------------------------------------------
(* Properties of extract_metric_from_text (specification SpecExtract) *)

\* C27: extract_metric_from_text returns None or a member of
\* ALLOWED_METRICS for every text.
C27_ExtractedMetricAllowed ==
    fPc = "extracted" => (fRet[1] = NONE \/ fRet[1] \in AllowedMetricSet)

-----------------------------------------------------------------------------
(* Properties of is_point_query and format_point_result (specification    *)
(* SpecPoint)                                                              *)

PointRows == fRet[1].rows

PointDates == { PointRows[i].date : i \in 1..Len(PointRows) }

\* the fetched rows with a valid value
PointValid == { i \in 1..Len(PointRows) : PointRows[i].metric_value # <<>> }

RECURSIVE SumPointValues(_)
SumPointValues(I) ==
    IF I = {} THEN 0
    ELSE LET i == CHOOSE x \in I : TRUE
         IN PointRows[i].metric_value[1] + SumPointValues(I \ { i })

\* C29: the fetched rows are handled as a point exactly when the QD has a
\* session or the rows span one distinct date; without a session, rows of
\* two or more dates are handled as a timeseries; with a session, rows of
\* several dates are a point whose value is the mean of the valid values.
C29_PointOrTimeseries ==
    fPc = "handled" =>
        /\ fRet[2].type = "point" <=>
              (fArgs.spec.session # NONE \/ Cardinality(PointDates) = 1)
        /\ fRet[2].type = "timeseries" <=>
              (fArgs.spec.session = NONE /\ Cardinality(PointDates) >= 2)
        /\ (fRet[2].type = "point" /\ PointValid # {}) =>
              /\ fRet[2].point.error = ""
              /\ fRet[2].point.value[1].num * Cardinality(PointValid)
                    = SumPointValues(PointValid) * fRet[2].point.value[1].den

\* session_2 of game0 with rows on two dates and valid values 0.12 and 0.16
C29_Witness ==
    /\ fPc = "handled"
    /\ fArgs.spec.session = "session_2"
    /\ Cardinality(PointDates) = 2
    /\ Cardinality(PointValid) = 2
    /\ fRet[2].type = "point"
    /\ FracEq(fRet[2].point.value[1], [ num |-> 14, den |-> 1 ])
====
